---- MODULE Spec2Model ----
(***************************************************************************)
(* A model of the teaching kernel's core: the contiguous frame allocator   *)
(* (ContFramePool, three revisions: MP2, MP3, MP5) and the page-fault      *)
(* resolver (PageTable, revisions MP3 and MP4).                            *)
(***************************************************************************)
EXTENDS Integers, Sequences, FiniteSets, TLC

(***************************************************************************)
(* Bounds of the model.                                                    *)
(***************************************************************************)
\* calls made after system start, constructors included
MaxOps == 4
\* largest ordinary request size for get_frames
MaxReq == 4
\* bitmap cells modelled after a pool's own n_frames cells (the info frame
\* holds 16384 two-bit cells; the cells past n_frames are never initialised)
SlackLen == 8
\* pools that may be constructed
MaxPools == 2
\* calls made on a constructed VMPool
MaxVMOps == 5
\* faults and free_page calls where the process pool is the larger one
MaxPagingOps == 6
\* calls made on a constructed scheduler
MaxSchedOps == 6
\* threads the kernel creates
MaxThreads == 3
\* calls of add or resume made with nullptr
MaxNullCalls == 1
\* threads that use the disk
MaxDiskThreads == 3
\* disk commands issued by all threads together
MaxDiskCmds == 2
\* addresses that hold a node of the blocked queue
MaxNodes == 3
\* threads that run where the blocked queue is studied as a linked list
MaxListThreads == 2
\* bytes in a disk block (SimpleDisk::BLOCK_SIZE, 512 on the machine)
BLOCK_SIZE == 2
\* data blocks a file may have (Inode::MAX_BLOCKS); an indirect block has
\* room for them
MAX_BLOCKS == 2
\* inode records in block 0 (FileSystem::MAX_INODES)
MAX_INODES == 2
\* blocks on the disk (size / BLOCK_SIZE); blocks 0 and 1 hold the tables
NumBlocks == 6
\* calls made on the mounted file system and its File
MaxFSOps == 7
\* largest byte value written (bytes 1 .. MaxByte; 0 is the zero fill)
MaxByte == 2

(***************************************************************************)
(* Frame states and their two-bit patterns (MP3, MP5: get_state decodes    *)
(* 0b00, 0b01, 0b11; the pattern 0b10 decodes as Used by default).         *)
(***************************************************************************)
Free == 0
Used == 1
HoS == 3
\* a bitmap cell past n_frames that no code has written yet
Uninit == 4
\* such a cell once a read found it different from the Free pattern
NonZero == 5

\* unsigned long arithmetic: a result below zero wraps to a word near 2^32,
\* which is kept as one number above every count and index of the model
Wrap32(x) == IF x < 0 THEN 1073741824 ELSE x

VARIABLES
    ver,      \* which revision of the sources runs: "MP2", "MP3" or "MP5"
    pools,    \* the static list of pools (head/next, or frame_pools[]), in order
    halted,   \* the kernel stopped in assert(false)
    last,     \* the call that was made last, with its result
    nops,     \* calls made so far
    ptver,    \* which revision of page_table.C runs: "MP3" or "MP4"
    kpool,    \* PageTable::kernel_mem_pool
    ppool,    \* PageTable::process_mem_pool
    pd,       \* the page directory: directory index -> entry
    pt,       \* the memory of each frame read as a page table: frame -> index -> entry
    vmpools,  \* PageTable::vm_pool_head and the ptr_next_vm_pool links, in order
    vm,       \* the VMPool object under study, with its region table
    freed,    \* the pages the last VMPool::release passed to free_page, in order
    sver,     \* which scheduler runs: "MP5" (Scheduler), "MP5RR" (RRScheduler), "MP6"
    ready_queue,     \* the ready queue, head first
    qsize,           \* qsize / rr_qsize / queue_size
    ticks,           \* RRScheduler::ticks
    current_thread,  \* Thread::CurrentThread(), 0 for nullptr
    tstate,          \* each thread: "new", "live" (added) or "dead" (terminated)
    slog,            \* the scheduler calls made so far, with the thread dispatched
    interrupts_enabled,  \* Machine::interrupts_enabled(), the IF flag
    pit,             \* the bytes written to the timer's ports, <<port, byte>>
    elapsed,         \* timer ticks taken since a yield dispatched the running
                     \* thread; -1 when no yield dispatched it or it has called
                     \* yield itself since
    dver,            \* which NonBlockingDisk runs: "poll" (part_002), "irq" (part_003)
    blocked_queue,   \* blocked_queue_head .. blocked_queue_tail, head first
    waiting_for_interrupt,  \* NonBlockingDisk::waiting_for_interrupt
    busy,            \* the BSY bit of the drive's status register
    irq14,           \* IRQ14 is raised and its handler has not run yet
    th,              \* each thread: where it is in its disk operation
    cmds,            \* disk commands issued so far
    blocked_queue_head,  \* the queue as the linked list it is: the address
    blocked_queue_tail,  \* of the first and of the last node, 0 for nullptr
    heap,            \* the BlockedThreadNode at each address
    loc,             \* each thread's locals in wait_while_busy
    fsver,           \* "fs" while the file system is under study
    disk,            \* the blocks of the SimpleDisk the file system is on
    inodes,          \* FileSystem::inodes, the in-memory inode table
    free_blocks,     \* FileSystem::free_blocks, one cell per disk block
    file,            \* the File object under study
    rbuf,            \* the bytes the last Read copied into the caller's buffer
    wrote,           \* the bytes handed to Write since the File was opened
    fphase,          \* what the File has been used for since a fresh file
    other            \* a second File object
                     \* was opened: "w" writes only, "r" writes then one
                     \* Reset, "x" anything else

vars == <<ver, pools, halted, last, nops, ptver, kpool, ppool, pd, pt, vmpools,
          vm, freed, sver, ready_queue, qsize, ticks, current_thread, tstate,
          slog, interrupts_enabled, pit, elapsed, dver, blocked_queue, waiting_for_interrupt, busy,
          irq14, th, cmds, blocked_queue_head, blocked_queue_tail, heap,
          loc, fsver, disk, inodes, free_blocks, file, rbuf,
          wrote, fphase, other>>

poolVars == <<ver, pools>>
ptVars == <<ptver, kpool, ppool, pd, pt, vmpools>>
vmVars == <<vm, freed>>
schedVars == <<sver, ready_queue, qsize, ticks, current_thread, tstate, slog,
               interrupts_enabled, pit, elapsed>>
nodeVars == <<blocked_queue_head, blocked_queue_tail, heap, loc>>
diskVars == <<dver, blocked_queue, waiting_for_interrupt, busy, irq14, th, cmds,
              nodeVars>>
fsVars == <<fsver, disk, inodes, free_blocks, file, rbuf, wrote, fphase,
            other>>

\* the page-table part while the frame-pool system runs alone, and back
IdlePT ==
    /\ ptver = "none" /\ kpool = 0 /\ ppool = 0
    /\ pd = << >> /\ pt = << >> /\ vmpools = << >>

\* the VMPool part while no VMPool is under study
IdleVM == vm = 0 /\ freed = << >>

\* the scheduler part while no scheduler is under study
IdleSched ==
    /\ sver = "none" /\ ready_queue = << >> /\ qsize = 0 /\ ticks = 0
    /\ current_thread = 0 /\ tstate = << >> /\ slog = << >>
    /\ interrupts_enabled = TRUE
    /\ pit = << >>
    /\ elapsed = -1

\* the disk part while no NonBlockingDisk is under study
IdleDisk ==
    /\ dver = "none" /\ blocked_queue = << >>
    /\ waiting_for_interrupt = FALSE /\ busy = FALSE /\ irq14 = FALSE
    /\ th = << >> /\ cmds = 0
    /\ blocked_queue_head = 0 /\ blocked_queue_tail = 0
    /\ heap = << >> /\ loc = << >>

\* the file-system part while no FileSystem is under study
IdleFS ==
    /\ fsver = "none" /\ disk = << >> /\ inodes = << >>
    /\ free_blocks = << >> /\ file = << >> /\ rbuf = << >>
    /\ wrote = << >> /\ fphase = "x" /\ other = << >>

Versions == {"MP2", "MP3", "MP5"}

\* the constructor arguments the model draws from
PoolConfigs ==
    { [base |-> 8, n |-> 8, info |-> 0],
      [base |-> 0, n |-> 8, info |-> 9] }

\* sizes asked of get_frames: 0, the ordinary ones, and one above any pool
ReqSizes == (0 .. MaxReq) \cup {9}

\* frame numbers passed to release_frames and mark_inaccessible
FrameArgs == 0 .. 16

\* the ranges passed to mark_inaccessible: starts at and around the pool
\* edges, lengths 1 and 2
MarkBases == {0, 1, 7, 8, 9, 15}

MarkSizes == 1 .. 2

----------------------------------------------------------------------------
(***************************************************************************)
(* MP5 (and, with the same text, MP3): two bits per frame.                 *)
(***************************************************************************)

\* ContFramePool::get_state: decode a cell
get_state(bitmap, _frame_no) ==
    LET mask_result == bitmap[_frame_no]
    IN  IF mask_result = 0 THEN Free
        ELSE IF mask_result = 1 THEN Used
        ELSE IF mask_result = 3 THEN HoS
        ELSE Used

\* bitmap[row] ^= (1 << col) on one cell
Xor1(v) == IF v \in {Uninit, NonZero} THEN Uninit
           ELSE IF v % 2 = 0 THEN v + 1 ELSE v - 1

\* bitmap[row] ^= (3 << col) on one cell
Xor3(v) == IF v \in {Uninit, NonZero} THEN Uninit ELSE 3 - v

\* ContFramePool::set_state: the new content of one cell
set_state_cell(v, _state) ==
    IF _state = Free THEN 0
    ELSE IF _state = Used THEN Xor1(v)
    ELSE Xor3(v)

\* ContFramePool::set_state on the modelled memory; a write past it is to
\* memory the model does not hold
set_state(bitmap, _frame_no, _state) ==
    IF _frame_no \in DOMAIN bitmap
    THEN [bitmap EXCEPT ![_frame_no] = set_state_cell(@, _state)]
    ELSE bitmap

\* ContFramePool::ContFramePool (MP3, MP5)
MP5_ContFramePool(_base_frame_no, _n_frames, _info_frame_no) ==
    LET cleared == [i \in 0 .. (_n_frames + SlackLen - 1) |->
                       IF i < _n_frames THEN 0 ELSE Uninit]
    IN  [ base_frame_no |-> _base_frame_no,
          n_frames |-> _n_frames,
          info_frame_no |-> _info_frame_no,
          num_free_frames |->
              IF _info_frame_no = 0 THEN _n_frames - 1 ELSE _n_frames,
          bitmap |-> IF _info_frame_no = 0
                     THEN set_state(cleared, 0, Used)
                     ELSE cleared ]

\* MP5_scan with the reset of run_len on a frame that is not Free left out
RECURSIVE MP5_scan_noreset(_, _, _, _, _, _)
MP5_scan_noreset(bitmap, n_frames, _n_frames, idx, run_start, run_len) ==
    IF idx >= n_frames THEN -1
    ELSE IF get_state(bitmap, idx) = Free
         THEN LET rs == IF run_len = 0 THEN idx ELSE run_start
                  rl == run_len + 1
              IN  IF rl = _n_frames THEN rs
                  ELSE MP5_scan_noreset(bitmap, n_frames, _n_frames, idx + 1, rs, rl)
         ELSE MP5_scan_noreset(bitmap, n_frames, _n_frames, idx + 1,
                               run_start, run_len)

\* the scan loop of get_frames: the start of the run found, or -1
RECURSIVE MP5_scan(_, _, _, _, _, _)
MP5_scan(bitmap, n_frames, _n_frames, idx, run_start, run_len) ==
    IF idx >= n_frames THEN -1
    ELSE IF get_state(bitmap, idx) = Free
         THEN LET rs == IF run_len = 0 THEN idx ELSE run_start
                  rl == run_len + 1
              IN  IF rl = _n_frames THEN rs
                  ELSE MP5_scan(bitmap, n_frames, _n_frames, idx + 1, rs, rl)
         ELSE MP5_scan(bitmap, n_frames, _n_frames, idx + 1, run_start, 0)

\* the marking loop of get_frames
MP5_mark_run(bitmap, run_start, _n_frames) ==
    [i \in DOMAIN bitmap |->
        IF i = run_start /\ _n_frames > 0 THEN set_state_cell(bitmap[i], HoS)
        ELSE IF i > run_start /\ i < run_start + _n_frames
             THEN set_state_cell(bitmap[i], Used)
             ELSE bitmap[i]]

\* MP5_get_frames with the "if (!found)" exit left out: the marking loop
\* runs from run_start, which is still 0 when no run was found
MP5_get_frames_nofoundcheck(p, _n_frames) ==
    IF _n_frames > p.num_free_frames \/ _n_frames > p.n_frames
    THEN [pool |-> p, ret |-> 0, outcome |-> "fatal"]
    ELSE LET found == MP5_scan(p.bitmap, p.n_frames, _n_frames, 0, 0, 0)
             run_start == IF found = -1 THEN 0 ELSE found
         IN  [pool |-> [p EXCEPT
                   !.bitmap = MP5_mark_run(@, run_start, _n_frames),
                   !.num_free_frames = Wrap32(@ - _n_frames)],
               ret |-> run_start + p.base_frame_no,
               outcome |-> "ok"]

\* ContFramePool::get_frames (MP3, MP5)
MP5_get_frames(p, _n_frames) ==
    IF _n_frames > p.num_free_frames \/ _n_frames > p.n_frames
    THEN [pool |-> p, ret |-> 0, outcome |-> "fatal"]
    ELSE LET run_start == MP5_scan(p.bitmap, p.n_frames, _n_frames, 0, 0, 0)
         IN  IF run_start = -1
             THEN [pool |-> p, ret |-> 0, outcome |-> "fatal"]
             ELSE [pool |-> [p EXCEPT
                       !.bitmap = MP5_mark_run(@, run_start, _n_frames),
                       !.num_free_frames = Wrap32(@ - _n_frames)],
                   ret |-> run_start + p.base_frame_no,
                   outcome |-> "ok"]

\* the loop of mark_inaccessible over idx = _base_frame_no .. end_index - 1
RECURSIVE MP5_mark_loop(_, _, _, _)
MP5_mark_loop(p, _base_frame_no, idx, end_index) ==
    IF idx >= end_index THEN p
    ELSE LET rel == idx - p.base_frame_no
             q == IF get_state(p.bitmap, rel) = Free
                  THEN [p EXCEPT
                          !.bitmap = set_state(@, rel,
                              IF idx = _base_frame_no THEN HoS ELSE Used),
                          !.num_free_frames = Wrap32(@ - 1)]
                  ELSE p
         IN  MP5_mark_loop(q, _base_frame_no, idx + 1, end_index)

\* ContFramePool::mark_inaccessible (MP3, MP5)
MP5_mark_inaccessible(p, _base_frame_no, _n_frames) ==
    LET end_index == _base_frame_no + _n_frames
    IN  IF end_index > p.base_frame_no + p.n_frames
           \/ _base_frame_no < p.base_frame_no
        THEN [pool |-> p, ret |-> 0, outcome |-> "fatal"]
        ELSE [pool |-> MP5_mark_loop(p, _base_frame_no, _base_frame_no, end_index),
              ret |-> 0, outcome |-> "ok"]

\* the while loop of MP5's release_frames_in_pool: it reads the cell
\* current_index - base_frame_no and frees the cell current_index.  A cell
\* never written holds what the memory held: either outcome of the test.
\* The set of pools the loop can end with.
RECURSIVE MP5_release_loop(_, _)
MP5_release_loop(p, current_index) ==
    LET rd == current_index - p.base_frame_no
        step(q) == MP5_release_loop(
                      [q EXCEPT !.bitmap = set_state(@, current_index, Free),
                                !.num_free_frames = Wrap32(@ + 1)],
                      current_index + 1)
    IN  IF rd \notin DOMAIN p.bitmap THEN {}
        ELSE IF p.bitmap[rd] = Uninit
             THEN {[p EXCEPT !.bitmap[rd] = 0]}
                  \cup step([p EXCEPT !.bitmap[rd] = NonZero])
        ELSE IF p.bitmap[rd] = NonZero THEN step(p)
        ELSE IF get_state(p.bitmap, rd) # Free THEN step(p)
        ELSE {p}

\* MP5_release_frames_in_pool with the test for HoS left out
MP5_release_frames_in_pool_nocheck(p, _first_frame_no) ==
    { [pool |-> q, ret |-> 0, outcome |-> "ok"] :
         q \in MP5_release_loop(
                 [p EXCEPT !.bitmap = set_state(@, _first_frame_no, Free),
                           !.num_free_frames = Wrap32(@ + 1)],
                 _first_frame_no + 1) }

\* ContFramePool::release_frames_in_pool (MP5): the possible results
MP5_release_frames_in_pool(p, _first_frame_no) ==
    IF get_state(p.bitmap, _first_frame_no - p.base_frame_no) = HoS
    THEN { [pool |-> q, ret |-> 0, outcome |-> "ok"] :
             q \in MP5_release_loop(
                     [p EXCEPT !.bitmap = set_state(@, _first_frame_no, Free),
                               !.num_free_frames = Wrap32(@ + 1)],
                     _first_frame_no + 1) }
    ELSE { [pool |-> p, ret |-> 0, outcome |-> "fatal"] }

----------------------------------------------------------------------------
(***************************************************************************)
(* MP3: as MP5 but for release_frames_in_pool.                             *)
(***************************************************************************)

MP3_ContFramePool(_base_frame_no, _n_frames, _info_frame_no) ==
    MP5_ContFramePool(_base_frame_no, _n_frames, _info_frame_no)

MP3_get_frames(p, _n_frames) == MP5_get_frames(p, _n_frames)

MP3_mark_inaccessible(p, _base_frame_no, _n_frames) ==
    MP5_mark_inaccessible(p, _base_frame_no, _n_frames)

\* ContFramePool::release_frames_in_pool (MP3): nframes cells from the first
MP3_release_frames_in_pool(p, _first_frame_no) ==
    IF get_state(p.bitmap, _first_frame_no - p.base_frame_no) = HoS
    THEN LET lo == _first_frame_no - p.base_frame_no
             hi == lo + p.n_frames
         IN  { [pool |-> [p EXCEPT
                    !.bitmap = [i \in DOMAIN p.bitmap |->
                                   IF i >= lo /\ i < hi THEN 0 ELSE p.bitmap[i]],
                    !.num_free_frames = Wrap32(@ + p.n_frames)],
                ret |-> 0, outcome |-> "ok"] }
    ELSE { [pool |-> p, ret |-> 0, outcome |-> "fatal"] }

----------------------------------------------------------------------------
(***************************************************************************)
(* MP2: one byte per frame, no free-frame counter, asserts in get_state    *)
(* and set_state.                                                          *)
(***************************************************************************)

\* ContFramePool::ContFramePool (MP2)
MP2_ContFramePool(_base_frame_no, _n_frames, _info_frame_no) ==
    [ base_frame_no |-> _base_frame_no,
      n_frames |-> _n_frames,
      info_frame_no |-> _info_frame_no,
      num_free_frames |-> 0,
      bitmap |-> [i \in 0 .. (_n_frames + SlackLen - 1) |->
                    IF i >= _n_frames THEN Uninit
                    ELSE IF _info_frame_no = 0 /\ i = 0 THEN HoS
                    ELSE Free] ]

\* the inner loop of get_frames at start i: "free" when all _n_frames cells
\* are Free, "used" at the first cell that is not, "assert" when get_state
\* is asked for a cell >= nframes first
RECURSIVE MP2_probe(_, _, _, _)
MP2_probe(p, i, j, _n_frames) ==
    IF j >= _n_frames THEN "free"
    ELSE IF i + j >= p.n_frames THEN "assert"
    ELSE IF p.bitmap[i + j] # Free THEN "used"
    ELSE MP2_probe(p, i, j + 1, _n_frames)

\* the outer loop of get_frames: the first i that probes "free", or -1 when
\* the loop ends, or -2 when an assert stops it.  nframes - _n_frames is
\* unsigned: below zero it wraps and the loop bound never ends the loop.
RECURSIVE MP2_search(_, _, _)
MP2_search(p, i, _n_frames) ==
    IF _n_frames <= p.n_frames /\ i > p.n_frames - _n_frames THEN -1
    ELSE LET r == MP2_probe(p, i, 0, _n_frames)
         IN  IF r = "free" THEN i
             ELSE IF r = "assert" THEN -2
             ELSE MP2_search(p, i + 1, _n_frames)

\* ContFramePool::get_frames (MP2)
MP2_get_frames(p, _n_frames) ==
    LET i == MP2_search(p, 0, _n_frames)
    IN  IF i = -2 THEN [pool |-> p, ret |-> 0, outcome |-> "fatal"]
        ELSE IF i = -1 THEN [pool |-> p, ret |-> 0, outcome |-> "ret0"]
        ELSE [pool |-> [p EXCEPT !.bitmap =
                          [c \in DOMAIN p.bitmap |->
                              IF c = i THEN HoS
                              ELSE IF c > i /\ c < i + _n_frames THEN Used
                              ELSE p.bitmap[c]]],
              ret |-> p.base_frame_no + i, outcome |-> "ok"]

\* ContFramePool::mark_inaccessible (MP2): set_state asserts at the first
\* cell >= nframes, after the cells before it were written
MP2_mark_inaccessible(p, _base_frame_no, _n_frames) ==
    LET relative_frame_no == Wrap32(_base_frame_no - p.base_frame_no)
        cnt == IF _n_frames = 0 THEN 1 ELSE _n_frames
        written == [c \in DOMAIN p.bitmap |->
                       IF c >= p.n_frames THEN p.bitmap[c]
                       ELSE IF c = relative_frame_no THEN HoS
                       ELSE IF c > relative_frame_no /\ c < relative_frame_no + cnt
                            THEN Used
                       ELSE p.bitmap[c]]
    IN  [pool |-> [p EXCEPT !.bitmap = written], ret |-> 0,
         outcome |-> IF relative_frame_no + cnt > p.n_frames
                     THEN "fatal" ELSE "ok"]

\* the while loop of MP2's release_frames
RECURSIVE MP2_release_loop(_, _)
MP2_release_loop(p, i) ==
    IF i < p.n_frames /\ p.bitmap[i] = Used
    THEN MP2_release_loop([p EXCEPT !.bitmap[i] = Free], i + 1)
    ELSE p

\* ContFramePool::release_frames (MP2), the part after the owning pool is found
MP2_release_frames_in_pool(p, _first_frame_no) ==
    LET relative_frame == _first_frame_no - p.base_frame_no
    IN  IF p.bitmap[relative_frame] = HoS
        THEN { [pool |-> MP2_release_loop(
                            [p EXCEPT !.bitmap[relative_frame] = Free],
                            relative_frame + 1),
                ret |-> 0, outcome |-> "ok"] }
        ELSE { [pool |-> p, ret |-> 0, outcome |-> "fatal"] }

----------------------------------------------------------------------------
(***************************************************************************)
(* The three revisions behind one interface.                               *)
(***************************************************************************)

ContFramePool(v, cfg) ==
    IF v = "MP2" THEN MP2_ContFramePool(cfg.base, cfg.n, cfg.info)
    ELSE IF v = "MP3" THEN MP3_ContFramePool(cfg.base, cfg.n, cfg.info)
    ELSE MP5_ContFramePool(cfg.base, cfg.n, cfg.info)

get_frames(v, p, n) ==
    IF v = "MP2" THEN MP2_get_frames(p, n)
    ELSE IF v = "MP3" THEN MP3_get_frames(p, n)
    ELSE MP5_get_frames(p, n)

mark_inaccessible(v, p, b, n) ==
    IF v = "MP2" THEN MP2_mark_inaccessible(p, b, n)
    ELSE IF v = "MP3" THEN MP3_mark_inaccessible(p, b, n)
    ELSE MP5_mark_inaccessible(p, b, n)

release_frames_in_pool(v, p, f) ==
    IF v = "MP2" THEN MP2_release_frames_in_pool(p, f)
    ELSE IF v = "MP3" THEN MP3_release_frames_in_pool(p, f)
    ELSE MP5_release_frames_in_pool(p, f)

\* does pool p own frame f: the range test of release_frames
Owns(p, f) == f >= p.base_frame_no /\ f < p.base_frame_no + p.n_frames

\* the walk of release_frames over the pool list: the index of the first
\* pool that owns f, or 0
OwnerOf(ps, f) ==
    IF \E k \in 1 .. Len(ps) : Owns(ps[k], f)
    THEN CHOOSE k \in 1 .. Len(ps) :
            Owns(ps[k], f) /\ \A m \in 1 .. (k - 1) : ~Owns(ps[m], f)
    ELSE 0

\* ContFramePool::release_frames (static): the possible results, each the
\* new pool list and the outcome
release_frames(v, ps, f) ==
    LET k == OwnerOf(ps, f)
    IN  IF k = 0 THEN { [pools |-> ps, outcome |-> "fatal"] }
        ELSE { [pools |-> [ps EXCEPT ![k] = r.pool], outcome |-> r.outcome] :
                  r \in release_frames_in_pool(v, ps[k], f) }

----------------------------------------------------------------------------
(***************************************************************************)
(* The frame-pool system: construction and the three calls.                *)
(***************************************************************************)

NoCall == [op |-> "none", pool |-> 0, a |-> 0, n |-> 0, ret |-> 0,
           outcome |-> "ok"]

InitPool ==
    /\ ver \in Versions
    /\ pools = << >>
    /\ halted = FALSE
    /\ last = NoCall
    /\ nops = 0
    /\ IdlePT
    /\ IdleVM
    /\ IdleSched
    /\ IdleDisk
    /\ IdleFS

Running == ~halted /\ nops < MaxOps

Construct(cfg) ==
    /\ Running
    /\ Len(pools) < MaxPools
    /\ \A k \in 1 .. Len(pools) : pools[k].base_frame_no # cfg.base
    /\ pools' = Append(pools, ContFramePool(ver, cfg))
    /\ last' = [op |-> "new", pool |-> Len(pools) + 1, a |-> cfg.base,
                n |-> cfg.n, ret |-> 0, outcome |-> "ok"]
    /\ nops' = nops + 1
    /\ UNCHANGED <<fsVars, diskVars, schedVars, ver, halted, ptVars, vmVars>>

GetFrames(k, n) ==
    /\ Running
    /\ LET r == get_frames(ver, pools[k], n)
       IN  /\ pools' = [pools EXCEPT ![k] = r.pool]
           /\ halted' = (r.outcome = "fatal")
           /\ last' = [op |-> "get_frames", pool |-> k, a |-> 0, n |-> n,
                       ret |-> r.ret, outcome |-> r.outcome]
    /\ nops' = nops + 1
    /\ UNCHANGED <<fsVars, diskVars, schedVars, ver, ptVars, vmVars>>

MarkInaccessible(k, b, n) ==
    /\ Running
    /\ LET r == mark_inaccessible(ver, pools[k], b, n)
       IN  /\ pools' = [pools EXCEPT ![k] = r.pool]
           /\ halted' = (r.outcome = "fatal")
           /\ last' = [op |-> "mark_inaccessible", pool |-> k, a |-> b,
                       n |-> n, ret |-> 0, outcome |-> r.outcome]
    /\ nops' = nops + 1
    /\ UNCHANGED <<fsVars, diskVars, schedVars, ver, ptVars, vmVars>>

ReleaseFrames(f) ==
    /\ Running
    /\ \E r \in release_frames(ver, pools, f) :
           /\ pools' = r.pools
           /\ halted' = (r.outcome = "fatal")
           /\ last' = [op |-> "release_frames", pool |-> OwnerOf(pools, f),
                       a |-> f, n |-> 0, ret |-> 0, outcome |-> r.outcome]
    /\ nops' = nops + 1
    /\ UNCHANGED <<fsVars, diskVars, schedVars, ver, ptVars, vmVars>>

NextPool ==
    \/ \E cfg \in PoolConfigs : Construct(cfg)
    \/ \E k \in 1 .. Len(pools), n \in ReqSizes : GetFrames(k, n)
    \/ \E k \in 1 .. Len(pools), b \in MarkBases, n \in MarkSizes :
          MarkInaccessible(k, b, n)
    \/ \E f \in FrameArgs : ReleaseFrames(f)

SpecPool == InitPool /\ [][NextPool]_vars

----------------------------------------------------------------------------
(***************************************************************************)
(* What the claims speak of, stated on the bitmap without the code's       *)
(* loops.                                                                  *)
(***************************************************************************)

\* the frames of pool p, pool-relative
FramesOf(p) == 0 .. (p.n_frames - 1)

\* frames i .. i+n-1 of p exist and are all Free
IsFreeRun(p, i, n) ==
    /\ i + n <= p.n_frames
    /\ \A j \in i .. (i + n - 1) : p.bitmap[j] = Free

HasRun(p, n) == \E i \in FramesOf(p) : IsFreeRun(p, i, n)

LowestRun(p, n) ==
    CHOOSE i \in FramesOf(p) :
        IsFreeRun(p, i, n) /\ \A j \in 0 .. (i - 1) : ~IsFreeRun(p, j, n)

\* the length of the allocation headed at frame r: r and the Used frames
\* that follow it
RunLen(p, r) ==
    LET ends == { e \in (r + 1) .. p.n_frames :
                    /\ \A j \in (r + 1) .. (e - 1) : get_state(p.bitmap, j) = Used
                    /\ (e = p.n_frames \/ get_state(p.bitmap, e) # Used) }
    IN  (CHOOSE e \in ends : TRUE) - r

FreeCount(p) == Cardinality({c \in FramesOf(p) : p.bitmap[c] = Free})

\* the frames that lie in some HoS-headed run
InRuns(p) ==
    { c \in FramesOf(p) :
        \E h \in 0 .. c :
            /\ get_state(p.bitmap, h) = HoS
            /\ \A j \in (h + 1) .. c : get_state(p.bitmap, j) = Used }

\* the pools other than the k-th are what they were
OthersUnchanged(k) ==
    /\ Len(pools') = Len(pools)
    /\ \A m \in 1 .. Len(pools) : m # k => pools'[m] = pools[m]

\* needed_info_frames as the specification gives it: ceil(2n / 32768)
SpecInfoFrames(n) == (2 * n + 32767) \div 32768

----------------------------------------------------------------------------
(***************************************************************************)
(* Claims about ContFramePool (checked under SpecPool).                    *)
(***************************************************************************)

\* C1: get_frames(n), n >= 1, called where the pool has a run of n Free
\* frames, returns base_frame + i for the lowest such run i; afterwards
\* frame i is HoS, frames i+1..i+n-1 are Used, every other cell of the
\* bitmap and every other pool is unchanged.
C1_GetFramesLowestRun ==
    [][ \A k \in 1 .. Len(pools) :
          ( /\ last'.op = "get_frames" /\ last'.pool = k
            /\ nops' = nops + 1
            /\ last'.n >= 1
            /\ HasRun(pools[k], last'.n) )
          => LET p == pools[k]
                 n == last'.n
                 i == LowestRun(p, n)
             IN  /\ last'.outcome = "ok"
                 /\ last'.ret = p.base_frame_no + i
                 /\ pools'[k].bitmap =
                       [c \in DOMAIN p.bitmap |->
                           IF c = i THEN HoS
                           ELSE IF c > i /\ c < i + n THEN Used
                           ELSE p.bitmap[c]]
                 /\ OthersUnchanged(k) ]_vars

\* C1 witness: a get_frames(2) that had to pass over a Free frame too short
\* a run to serve it
C1_Witness ==
    /\ last.op = "get_frames" /\ last.outcome = "ok" /\ last.n = 2
    /\ \E c \in FramesOf(pools[last.pool]) :
          /\ c < last.ret - pools[last.pool].base_frame_no
          /\ pools[last.pool].bitmap[c] = Free

\* C2: release_frames(f) on the HoS frame f of a run of length k frees
\* exactly the frames f..f+k-1: every other frame of the pool, and every
\* other pool, is unchanged (so a run that follows directly stays allocated).
C2_ReleaseFreesExactlyTheRun ==
    [][ \A k \in 1 .. Len(pools) :
          ( /\ last'.op = "release_frames" /\ last'.pool = k
            /\ nops' = nops + 1
            /\ get_state(pools[k].bitmap, last'.a - pools[k].base_frame_no) = HoS )
          => LET p == pools[k]
                 r == last'.a - p.base_frame_no
                 len == RunLen(p, r)
             IN  /\ last'.outcome = "ok"
                 /\ \A c \in FramesOf(p) :
                       pools'[k].bitmap[c] =
                          IF c >= r /\ c < r + len THEN Free ELSE p.bitmap[c]
                 /\ OthersUnchanged(k) ]_vars

\* C3: frame conservation: in every pool the counter num_free_frames equals
\* the number of Free frames (MP2 keeps no counter), and the Free frames
\* plus the frames of all HoS-headed runs are all the n_frames frames.
C3_FrameConservation ==
    \A k \in 1 .. Len(pools) :
        LET p == pools[k]
        IN  /\ ver # "MP2" =>
                  /\ p.num_free_frames = FreeCount(p)
                  /\ p.num_free_frames <= p.n_frames
            /\ FreeCount(p) + Cardinality(InRuns(p)) = p.n_frames

\* C3, the counter alone: num_free_frames equals the number of Free frames
C3_CounterMatchesBitmap ==
    \A k \in 1 .. Len(pools) :
        ver # "MP2" => pools[k].num_free_frames = FreeCount(pools[k])

\* C4: contiguity: every Used frame has a frame before it in the pool, and
\* the nearest frame before it that is not Used is HoS.
C4_Contiguity ==
    \A k \in 1 .. Len(pools) :
        \A c \in FramesOf(pools[k]) :
            get_state(pools[k].bitmap, c) = Used => c \in InRuns(pools[k])

\* C5: in a self-hosted pool (info_frame == 0) the first
\* ceil(2*n_frames/32768) frames are not Free after construction, get_frames
\* never returns them, release_frames never makes them Free, and after
\* get_frames(1) = X and release_frames(X) the lowest Free frame is X again
\* (get_frames(1) returns X again).
C5_SelfHostedInfoFrames ==
    [][ \A k \in 1 .. Len(pools') :
          LET q == pools'[k]
              need == SpecInfoFrames(q.n_frames)
          IN  (q.info_frame_no = 0 /\ nops' = nops + 1) =>
                /\ (last'.op = "new" /\ last'.pool = k)
                      => \A c \in 0 .. (need - 1) : q.bitmap[c] # Free
                /\ ( /\ last'.op = "get_frames" /\ last'.pool = k
                     /\ last'.outcome = "ok" /\ last'.n >= 1 )
                      => last'.ret >= q.base_frame_no + need
                /\ (last'.op = "release_frames" /\ k <= Len(pools))
                      => \A c \in 0 .. (need - 1) :
                            pools[k].bitmap[c] # Free => q.bitmap[c] # Free
                /\ ( /\ last.op = "get_frames" /\ last.pool = k
                     /\ last.outcome = "ok" /\ last.n = 1
                     /\ last'.op = "release_frames" /\ last'.a = last.ret )
                      => /\ last'.outcome = "ok"
                         /\ HasRun(q, 1)
                         /\ q.base_frame_no + LowestRun(q, 1) = last.ret ]_vars

\* C6: get_frames(n) fails whenever the pool has no run of n Free frames
\* (n above the free count or the pool size included): it ends in the
\* fatal assert (MP2 at times: the error return 0), and the bitmaps and the
\* counters of all pools are unchanged.
C6_GetFramesFails ==
    [][ \A k \in 1 .. Len(pools) :
          ( /\ last'.op = "get_frames" /\ last'.pool = k
            /\ nops' = nops + 1
            /\ last'.n >= 1
            /\ ~HasRun(pools[k], last'.n) )
          => /\ last'.outcome \in {"fatal", "ret0"}
             /\ last'.ret = 0
             /\ pools' = pools ]_vars

\* C6 witness: a request no larger than the free count that failed, because
\* the Free frames are not contiguous
C6_Witness ==
    /\ last.op = "get_frames" /\ last.outcome # "ok"
    /\ last.n >= 1
    /\ last.n <= FreeCount(pools[last.pool])

\* C7: release_frames(f) fails when no pool's range holds f, or when the
\* owning pool's state of f is not HoS; no bitmap and no counter changes.
C7_ReleaseFails ==
    [][ ( /\ last'.op = "release_frames"
          /\ nops' = nops + 1
          /\ \/ OwnerOf(pools, last'.a) = 0
             \/ LET p == pools[OwnerOf(pools, last'.a)]
                IN  get_state(p.bitmap, last'.a - p.base_frame_no) # HoS )
        => /\ last'.outcome = "fatal"
           /\ halted'
           /\ pools' = pools ]_vars

\* C7 witness: a release of a Used frame (inside a run, not its head) that
\* failed
C7_Witness ==
    /\ last.op = "release_frames" /\ last.outcome = "fatal"
    /\ last.pool # 0
    /\ LET p == pools[last.pool]
       IN  get_state(p.bitmap, last.a - p.base_frame_no) = Used

\* C7 witness, the other case: a release of a frame no pool owns
C7_WitnessNoOwner ==
    /\ last.op = "release_frames" /\ last.outcome = "fatal"
    /\ last.pool = 0 /\ Len(pools) > 0

----------------------------------------------------------------------------
(***************************************************************************)
(* PageTable (MP3, MP4) and the list of registered VMPools (MP4).          *)
(*                                                                         *)
(* A directory or table entry is a record: the frame it names (bits 31..12 *)
(* of the word) and the flags (bits 2..0: 1 = Present, 2 = R/W, 4 = User). *)
(* Memory is addressed by frame: pt[f] is the content of frame f read as a *)
(* page table.  The address translation of the handler's own loads and     *)
(* stores is not part of the model: a store through the recursive mapping  *)
(* reaches the entry that the directory names.                             *)
(***************************************************************************)

\* the revisions of page_table.C
PTVersions == {"MP3", "MP4"}

\* the cont_frame_pool.C a page_table.C is linked with
PoolVer(v) == IF v = "MP3" THEN "MP3" ELSE "MP5"

\* the directory slots of the model: 0 maps the shared region, 1 and 2 are
\* demand-paged, 1023 is the recursive slot of MP4
PDSlots(v) == IF v = "MP4" THEN {0, 1, 2, 1023} ELSE {0, 1, 2}

DemandSlots == {1, 2}

\* the table slots of the model: the pages that MaxVMOps allocations of
\* three pages can reach
PTSlots == 0 .. (3 * MaxVMOps)

\* the frames of the shared (identity-mapped) region: shared_size / PAGE_SIZE
SharedFrames == 16

Entry(f, fl) == [frame |-> f, flags |-> fl]

Present(e) == e.flags % 2 = 1

\* entry | 0b10
OrRW(e) == [e EXCEPT !.flags = IF (e.flags \div 2) % 2 = 1 THEN e.flags
                                 ELSE e.flags + 2]

\* what a fresh frame may hold where the constructor reads a directory
\* entry it never wrote: a zero word, or a word with the Present bit set
PDEGarbage == {Entry(0, 0), Entry(0, 1)}

\* what frame 0 may hold where it is read as a page table
PTEGarbage == {Entry(0, 0), Entry(0, 1)}

\* the contents of frame 0 the model starts from: every word alike
Frame0Tables == { [i \in PTSlots |-> g] : g \in PTEGarbage }

\* fault_address >> 22
page_dir_index(a) == a \div 4194304

\* (fault_address >> 12) & 0x3FF
page_table_index(a) == (a \div 4096) % 1024

Addr(pdi, pti) == pdi * 4194304 + pti * 4096

\* the fault addresses of the model
FaultAddrs == { Addr(i, j) : i \in {0} \cup DemandSlots, j \in {0, 1} }

\* REGS::err_code: bit 0 Present, bit 1 Write, bit 2 User
ErrCodes == {0, 1, 4}

\* the VMPools that may be constructed (base_address, size)
VMPoolConfigs ==
    { [base_address |-> Addr(1, 0), size |-> 8192],
      [base_address |-> Addr(2, 0), size |-> 4096] }

\* VMPool::is_legitimate
is_legitimate(vp, _address) ==
    ~( _address < vp.base_address \/ _address >= vp.base_address + vp.size )

\* the frame f becomes the table tbl
SetTable(tables, f, tbl) ==
    [g \in DOMAIN tables \cup {f} |-> IF g = f THEN tbl ELSE tables[g]]

\* a store to entry i of the table in frame f
SetPTE(tables, f, i, e) == [tables EXCEPT ![f][i] = e]

\* the state the page-table code works on
PTState == [kpool |-> kpool, ppool |-> ppool, pd |-> pd, pt |-> pt]

Fatal(st) == [st |-> st, outcome |-> "fatal"]

Handled(st) == [st |-> st, outcome |-> "handled"]

\* PageTable::handle_fault (MP4): the walk over the VMPool list; tmp is the
\* position the loop stops at (0: the null pointer)
RECURSIVE MP4_walk(_, _, _)
MP4_walk(list, tmp, fault_address) ==
    IF tmp > Len(list) THEN [tmp |-> 0, present_flag |-> 0]
    ELSE IF is_legitimate(list[tmp], fault_address)
         THEN [tmp |-> tmp, present_flag |-> 1]
         ELSE MP4_walk(list, tmp + 1, fault_address)

\* PageTable::handle_fault (MP4)
MP4_handle_fault(st, list, error_code, fault_address) ==
    IF error_code % 2 # 0 THEN Handled(st)
    ELSE
      LET pdi == page_dir_index(fault_address)
          pti == page_table_index(fault_address)
          w   == MP4_walk(list, 1, fault_address)
      IN
      IF w.tmp # 0 /\ w.present_flag = 0 THEN Fatal(st)
      ELSE IF ~Present(st.pd[pdi]) THEN
        LET g1 == get_frames("MP5", st.ppool, 1)
        IN  IF g1.outcome # "ok" THEN Fatal([st EXCEPT !.ppool = g1.pool])
            ELSE
            LET st1 == [st EXCEPT
                          !.ppool = g1.pool,
                          !.pd = [st.pd EXCEPT ![pdi] = Entry(g1.ret, 3)],
                          !.pt = SetTable(st.pt, g1.ret,
                                          [i \in PTSlots |-> Entry(0, 4)])]
                g2 == get_frames("MP5", st1.ppool, 1)
            IN  IF g2.outcome # "ok" THEN Fatal([st1 EXCEPT !.ppool = g2.pool])
                ELSE Handled([st1 EXCEPT
                                !.ppool = g2.pool,
                                !.pt = SetPTE(st1.pt, g1.ret, pti,
                                              Entry(g2.ret, 3))])
      ELSE
        LET g == get_frames("MP5", st.ppool, 1)
        IN  IF g.outcome # "ok" THEN Fatal([st EXCEPT !.ppool = g.pool])
            ELSE Handled([st EXCEPT
                            !.ppool = g.pool,
                            !.pt = SetPTE(st.pt, st.pd[pdi].frame, pti,
                                          Entry(g.ret, 3))])

\* PageTable::handle_fault (MP3)
MP3_handle_fault(st, error_code, fault_address) ==
    LET page_not_present == error_code % 2 = 0
        from_user_mode   == (error_code \div 4) % 2 = 1
        fl  == IF from_user_mode THEN 7 ELSE 3
        pdi == page_dir_index(fault_address) % 1024
        pti == page_table_index(fault_address)
    IN
    IF ~page_not_present THEN Fatal(st)
    ELSE
      LET g1 == get_frames("MP3", st.kpool, 1)
          step1 ==
            IF Present(st.pd[pdi]) THEN Handled(st)
            ELSE IF g1.outcome # "ok" THEN Fatal([st EXCEPT !.kpool = g1.pool])
            ELSE IF ~(g1.ret + 1 <= SharedFrames)
                 THEN Fatal([st EXCEPT !.kpool = g1.pool])
            ELSE Handled([st EXCEPT
                            !.kpool = g1.pool,
                            !.pd = [st.pd EXCEPT ![pdi] = Entry(g1.ret, fl)],
                            !.pt = SetTable(st.pt, g1.ret,
                                            [i \in PTSlots |-> Entry(0, 0)])])
      IN
      IF step1.outcome = "fatal" THEN step1
      ELSE
        LET st1 == step1.st
            tf  == st1.pd[pdi].frame
            g2  == get_frames("MP3", st1.ppool, 1)
        IN  IF Present(st1.pt[tf][pti]) THEN Handled(st1)
            ELSE IF g2.outcome # "ok" THEN Fatal([st1 EXCEPT !.ppool = g2.pool])
            ELSE Handled([st1 EXCEPT
                            !.ppool = g2.pool,
                            !.pt = SetPTE(st1.pt, tf, pti, Entry(g2.ret, fl))])

handle_fault(v, st, list, error_code, fault_address) ==
    IF v = "MP3" THEN MP3_handle_fault(st, error_code, fault_address)
    ELSE MP4_handle_fault(st, list, error_code, fault_address)

\* PageTable::register_pool: append to the list
register_pool(list, _vm_pool) == Append(list, _vm_pool)

\* PageTable::free_page (MP4), called for a page whose directory entry is
\* Present (the load through the recursive mapping reaches a table): the
\* possible results.  release_frames walks the static pool list, the kernel
\* pool first; when it asserts, the entry is not written.
free_page(st, _page_no) ==
    LET pdi == page_dir_index(_page_no)
        pti == page_table_index(_page_no)
        tf  == st.pd[pdi].frame
        frame_no == st.pt[tf][pti].frame
    IN  { IF r.outcome = "fatal" THEN Fatal(st)
          ELSE [st |-> [st EXCEPT !.kpool = r.pools[1],
                                  !.ppool = r.pools[2],
                                  !.pt = SetPTE(st.pt, tf, pti,
                                                OrRW(st.pt[tf][pti]))],
                outcome |-> "ok"] :
          r \in release_frames("MP5", <<st.kpool, st.ppool>>, frame_no) }

\* the kernel pool as the kernel sets it up: self-hosted, with one frame
\* taken for the process pool's bitmap
KernelPool(v) ==
    get_frames(PoolVer(v),
               ContFramePool(PoolVer(v), [base |-> 8, n |-> 8, info |-> 0]),
               1)

ProcessPool(v) ==
    ContFramePool(PoolVer(v), [base |-> 16, n |-> 8, info |-> KernelPool(v).ret])

\* PageTable::PageTable: the directory frame from the kernel pool, the first
\* page table from the process pool (MP4) or the kernel pool (MP3)
PageTableCtorOn(v, garbage, frame0, kernel_mem_pool, process_mem_pool) ==
    LET gd == get_frames(PoolVer(v), kernel_mem_pool, 1)
        gt == IF v = "MP3" THEN get_frames("MP3", gd.pool, 1)
              ELSE get_frames("MP5", process_mem_pool, 1)
    IN  [ kpool |-> IF v = "MP3" THEN gt.pool ELSE gd.pool,
          ppool |-> IF v = "MP3" THEN process_mem_pool ELSE gt.pool,
          pd    |-> [i \in PDSlots(v) |->
                        IF i = 0 THEN Entry(gt.ret, 3)
                        ELSE IF i = 1023 THEN Entry(gd.ret, 3)
                        ELSE OrRW(garbage[i])],
          pt    |-> SetTable(SetTable(<< >>, 0, frame0), gt.ret,
                             [i \in PTSlots |-> Entry(i, 3)]) ]

PageTableCtor(v, garbage, frame0) ==
    PageTableCtorOn(v, garbage, frame0, KernelPool(v).pool, ProcessPool(v))

InitPT ==
    /\ ptver \in PTVersions
    /\ \E garbage \in [DemandSlots -> PDEGarbage], frame0 \in Frame0Tables :
          \E c \in {PageTableCtor(ptver, garbage, frame0)} :
              /\ kpool = c.kpool /\ ppool = c.ppool
              /\ pd = c.pd /\ pt = c.pt
    /\ vmpools = << >>
    /\ ver = "none" /\ pools = << >>
    /\ IdleVM
    /\ IdleSched
    /\ IdleDisk
    /\ IdleFS
    /\ halted = FALSE
    /\ last = NoCall
    /\ nops = 0

\* VMPool::VMPool, the registration with the page table
RegisterPool(cfg) ==
    /\ Running
    /\ ptver = "MP4"
    /\ Len(vmpools) < MaxPools
    /\ \A k \in 1 .. Len(vmpools) : vmpools[k] # cfg
    /\ vmpools' = register_pool(vmpools, cfg)
    /\ last' = [op |-> "register_pool", pool |-> Len(vmpools) + 1,
                a |-> cfg.base_address, n |-> cfg.size, ret |-> 0,
                outcome |-> "ok"]
    /\ nops' = nops + 1
    /\ UNCHANGED <<fsVars, diskVars, schedVars, poolVars, vmVars, halted, ptver, kpool, ppool, pd, pt>>

\* the page-fault exception: PageTable::handle_fault
HandleFaultStep(error_code, fault_address) ==
    /\ LET r == handle_fault(ptver, PTState, vmpools, error_code, fault_address)
       IN  /\ kpool' = r.st.kpool /\ ppool' = r.st.ppool
           /\ pd' = r.st.pd /\ pt' = r.st.pt
           /\ halted' = (r.outcome = "fatal")
           /\ last' = [op |-> "handle_fault", pool |-> 0, a |-> fault_address,
                       n |-> error_code, ret |-> 0, outcome |-> r.outcome]
    /\ nops' = nops + 1
    /\ UNCHANGED <<fsVars, diskVars, schedVars, poolVars, vmVars, ptver, vmpools>>

HandleFault(error_code, fault_address) ==
    /\ Running
    /\ HandleFaultStep(error_code, fault_address)

\* PageTable::free_page
FreePageStep(_page_no) ==
    /\ ptver = "MP4"
    /\ Present(pd[page_dir_index(_page_no)])
    /\ \E r \in free_page(PTState, _page_no) :
           /\ kpool' = r.st.kpool /\ ppool' = r.st.ppool
           /\ pd' = r.st.pd /\ pt' = r.st.pt
           /\ halted' = (r.outcome = "fatal")
           /\ last' = [op |-> "free_page", pool |-> 0, a |-> _page_no,
                       n |-> 0, ret |-> 0, outcome |-> r.outcome]
    /\ nops' = nops + 1
    /\ UNCHANGED <<fsVars, diskVars, schedVars, poolVars, vmVars, ptver, vmpools>>

FreePage(_page_no) ==
    /\ Running
    /\ FreePageStep(_page_no)

NextPT ==
    \/ \E cfg \in VMPoolConfigs : RegisterPool(cfg)
    \/ \E e \in ErrCodes, a \in FaultAddrs : HandleFault(e, a)
    \/ \E a \in FaultAddrs : FreePage(a)

SpecPT == InitPT /\ [][NextPT]_vars

----------------------------------------------------------------------------
(***************************************************************************)
(* Claims about PageTable::handle_fault (checked under SpecPT).            *)
(***************************************************************************)

\* the step just taken is a call of handle_fault
FaultStep == last'.op = "handle_fault" /\ nops' = nops + 1

\* the fault address is inside some registered pool
Legitimate(a) == \E k \in 1 .. Len(vmpools) : is_legitimate(vmpools[k], a)

\* the entry that maps address a in the given directory and tables is Present
Mapped(dir, tables, a) ==
    /\ Present(dir[page_dir_index(a)])
    /\ dir[page_dir_index(a)].frame \in DOMAIN tables
    /\ Present(tables[dir[page_dir_index(a)].frame][page_table_index(a)])

\* the table entry of address a
PTEOf(dir, tables, a) ==
    tables[dir[page_dir_index(a)].frame][page_table_index(a)]

PTUnchanged == kpool' = kpool /\ ppool' = ppool /\ pd' = pd /\ pt' = pt

\* C8: handle_fault on a not-present fault: with at least one VMPool
\* registered and the address in none of them the handler aborts, taking no
\* frame and changing no PDE and no PTE; with no pool registered, or the
\* address in some pool, the fault is resolved (handled, the page mapped).
C8_IllegitimateFaultAborts ==
    [][ (FaultStep /\ last'.n % 2 = 0) =>
          /\ (Len(vmpools) >= 1 /\ ~Legitimate(last'.a))
                => (last'.outcome = "fatal" /\ halted' /\ PTUnchanged)
          /\ (Len(vmpools) = 0 \/ Legitimate(last'.a))
                => (last'.outcome = "handled" /\ Mapped(pd', pt', last'.a)) ]_vars

\* C9: handle_fault for an address whose PDE and PTE are already Present
\* takes no frame from the kernel pool or the process pool, and the PTE
\* keeps naming the same frame.
C9_SecondFaultAllocatesNothing ==
    [][ (FaultStep /\ last'.n % 2 = 0 /\ Mapped(pd, pt, last'.a)) =>
          /\ kpool' = kpool
          /\ ppool' = ppool
          /\ PTEOf(pd', pt', last'.a).frame = PTEOf(pd, pt, last'.a).frame ]_vars

\* C10: handle_fault with bit 0 of err_code set ends in the fatal outcome:
\* the fault is not reported as handled, no frame is taken, and no PDE and
\* no PTE changes.
C10_ProtectionFaultFatal ==
    [][ (FaultStep /\ last'.n % 2 = 1) =>
          /\ last'.outcome = "fatal"
          /\ halted'
          /\ PTUnchanged ]_vars

\* the flags the specification asks of a new entry: Present|RW, plus User
\* iff the fault came from user mode
SpecFlags(error_code) == IF (error_code \div 4) % 2 = 1 THEN 7 ELSE 3

\* pool q is pool p with exactly one more frame taken, frame f
TookOne(p, q, f) ==
    /\ Owns(p, f)
    /\ p.bitmap[f - p.base_frame_no] = Free
    /\ q.bitmap[f - p.base_frame_no] # Free
    /\ FreeCount(q) = FreeCount(p) - 1

\* C11: a legitimate not-present fault with the PDE missing takes exactly one
\* frame from the kernel pool (the new page table, every entry not Present)
\* and exactly one from the process pool (the PTE), both entries Present|RW
\* plus User iff the fault came from user mode; with the PDE present (and the
\* PTE not) it takes exactly one process frame and no kernel frame.
C11_MissingPDETakesKernelAndProcessFrame ==
    [][ ( /\ FaultStep /\ last'.n % 2 = 0
          /\ (Len(vmpools) = 0 \/ Legitimate(last'.a))
          /\ ~Mapped(pd, pt, last'.a) )
        => LET pdi == page_dir_index(last'.a)
               pti == page_table_index(last'.a)
               fl  == SpecFlags(last'.n)
           IN  /\ last'.outcome = "handled"
               /\ ~Present(pd[pdi]) =>
                     /\ pd'[pdi].flags = fl
                     /\ TookOne(kpool, kpool', pd'[pdi].frame)
                     /\ \A i \in PTSlots \ {pti} :
                           ~Present(pt'[pd'[pdi].frame][i])
                     /\ pt'[pd'[pdi].frame][pti].flags = fl
                     /\ TookOne(ppool, ppool', pt'[pd'[pdi].frame][pti].frame)
               /\ Present(pd[pdi]) =>
                     /\ kpool' = kpool
                     /\ pd' = pd
                     /\ pt'[pd[pdi].frame][pti].flags = fl
                     /\ TookOne(ppool, ppool', pt'[pd[pdi].frame][pti].frame) ]_vars

\* C12: free_page(v) on a mapped demand-paged page v leaves the PTE of v
\* with the Present bit clear and the frame that backed v Free in the
\* process pool; every other PTE and every PDE is unchanged.
C12_FreePageUnmaps ==
    [][ ( /\ last'.op = "free_page" /\ nops' = nops + 1
          /\ page_dir_index(last'.a) \in DemandSlots
          /\ Mapped(pd, pt, last'.a)
          /\ Owns(ppool, PTEOf(pd, pt, last'.a).frame)
          /\ get_state(ppool.bitmap,
                       PTEOf(pd, pt, last'.a).frame - ppool.base_frame_no) = HoS )
        => LET pdi == page_dir_index(last'.a)
               pti == page_table_index(last'.a)
               tf  == pd[pdi].frame
               f   == pt[tf][pti].frame
           IN  /\ last'.outcome = "ok"
               /\ ~Present(pt'[tf][pti])
               /\ ppool'.bitmap[f - ppool.base_frame_no] = Free
               /\ pd' = pd
               /\ DOMAIN pt' = DOMAIN pt
               /\ \A g \in DOMAIN pt : \A i \in PTSlots :
                     (g # tf \/ i # pti) => pt'[g][i] = pt[g][i] ]_vars

----------------------------------------------------------------------------
(***************************************************************************)
(* VMPool (vm_pool.C), running on the MP4 page table.                      *)
(*                                                                         *)
(* The region table is the array ptr_vm_region in the first page of the    *)
(* pool: a record stays in its slot after num_regions has dropped below    *)
(* it.  The pool lies in directory slot 1.                                 *)
(***************************************************************************)

\* the constructor arguments the model draws from: eight pages, three
\* pages, and a size that is not a multiple of the page size
VMConfigs ==
    { [base_address |-> Addr(1, 0), size |-> 32768],
      [base_address |-> Addr(1, 0), size |-> 12288],
      [base_address |-> Addr(1, 0), size |-> 4196] }

\* sizes asked of allocate: a byte, and one, two and three pages
AllocSizes == {1, 4096, 8192, 12288}

\* the slots of the region table
RegionSlots == 0 .. MaxVMOps

NoRegion == [base_address |-> 0, length |-> 0]

\* VMPool::VMPool: registration, then the store of region[0] into the first
\* page of the pool, which faults that page in when it is not mapped
VMPoolCtor(st, list, cfg) ==
    LET list1 == register_pool(list, [base_address |-> cfg.base_address,
                                      size |-> cfg.size])
        f == IF Mapped(st.pd, st.pt, cfg.base_address) THEN Handled(st)
             ELSE handle_fault("MP4", st, list1, 2, cfg.base_address)
    IN  [ st |-> f.st,
          list |-> list1,
          outcome |-> f.outcome,
          vm |-> [ base_address |-> cfg.base_address,
                   size |-> cfg.size,
                   num_regions |-> 1,
                   available_memory |-> Wrap32(cfg.size - 4096),
                   regions |-> [i \in RegionSlots |->
                                  IF i = 0
                                  THEN [base_address |-> cfg.base_address,
                                        length |-> 4096]
                                  ELSE NoRegion] ] ]

\* allocate_region without the rounding up to whole pages
allocate_region_noround(v, _size) ==
    LET n == v.num_regions
        b == v.regions[n - 1].base_address + v.regions[n - 1].length
    IN  [ vm |-> [v EXCEPT
                    !.regions[n] = [base_address |-> b, length |-> _size],
                    !.available_memory = Wrap32(@ - _size),
                    !.num_regions = n + 1],
          ret |-> b,
          outcome |-> "ok" ]

\* VMPool::allocate, the part after the test of the request: the new record
allocate_region(v, _size) ==
    LET pages_count == (_size \div 4096) + (IF _size % 4096 > 0 THEN 1 ELSE 0)
        n == v.num_regions
        b == v.regions[n - 1].base_address + v.regions[n - 1].length
    IN  [ vm |-> [v EXCEPT
                    !.regions[n] = [base_address |-> b,
                                    length |-> pages_count * 4096],
                    !.available_memory = Wrap32(@ - pages_count * 4096),
                    !.num_regions = n + 1],
          ret |-> b,
          outcome |-> "ok" ]

\* VMPool::allocate
allocate(v, _size) ==
    IF _size > v.available_memory
    THEN [vm |-> v, ret |-> 0, outcome |-> "fatal"]
    ELSE allocate_region(v, _size)

\* VMPool::release, the search loop: the slot whose base address is
\* _start_address, from slot 1 on, or -1
RECURSIVE find_region(_, _, _)
find_region(v, index, _start_address) ==
    IF index >= v.num_regions THEN -1
    ELSE IF v.regions[index].base_address = _start_address THEN index
    ELSE find_region(v, index + 1, _start_address)

\* VMPool::release, the loop over the pages: the possible results, each
\* with the pages passed to free_page
RECURSIVE free_pages(_, _, _, _)
free_pages(st, _start_address, page_count, log) ==
    IF page_count = 0 THEN {[st |-> st, outcome |-> "ok", freed |-> log]}
    ELSE UNION { IF r.outcome = "fatal"
                 THEN {[st |-> r.st, outcome |-> "fatal",
                        freed |-> Append(log, _start_address)]}
                 ELSE free_pages(r.st, _start_address + 4096, page_count - 1,
                                 Append(log, _start_address)) :
                 r \in free_page(st, _start_address) }

\* VMPool::release, the removal of slot region_no: later records move one
\* slot down, the last one stays where it was
shift_regions(v, region_no) ==
    [i \in RegionSlots |->
        IF i >= region_no /\ i < v.num_regions - 1 THEN v.regions[i + 1]
        ELSE v.regions[i]]

\* VMPool::release: the possible results
release(v, st, _start_address) ==
    LET region_no == find_region(v, 1, _start_address)
    IN  IF region_no = -1
        THEN {[vm |-> v, st |-> st, outcome |-> "fatal", freed |-> << >>]}
        ELSE LET page_count == v.regions[region_no].length \div 4096
                 shifted == shift_regions(v, region_no)
             IN  { IF r.outcome = "fatal"
                   THEN [vm |-> v, st |-> r.st, outcome |-> "fatal",
                         freed |-> r.freed]
                   ELSE [vm |-> [v EXCEPT
                                   !.regions = shifted,
                                   !.available_memory =
                                       @ + shifted[region_no].length,
                                   !.num_regions = @ - 1],
                         st |-> r.st, outcome |-> "ok", freed |-> r.freed] :
                   r \in free_pages(st, _start_address, page_count, << >>) }

\* the pages of region i
PagesOf(v, i) ==
    { v.regions[i].base_address + 4096 * k :
        k \in 0 .. ((v.regions[i].length \div 4096) - 1) }

\* the pages of the regions handed out (the metadata region 0 apart)
RegionPages(v) == UNION { PagesOf(v, i) : i \in 1 .. (v.num_regions - 1) }

\* the pages the model's program touches next: it fills each of its regions
\* from the start
TouchAddrs(v, dir, tables) ==
    { a \in RegionPages(v) :
        \E i \in 1 .. (v.num_regions - 1) :
            /\ a \in PagesOf(v, i)
            /\ ~Mapped(dir, tables, a)
            /\ \A b \in PagesOf(v, i) : b < a => Mapped(dir, tables, b) }

\* the addresses passed to release: the pool base and the page boundaries
\* after it
ReleaseAddrs(v) == { v.base_address + 4096 * k : k \in 0 .. 4 }

InitVM ==
    /\ ptver = "MP4"
    /\ \E g \in PDEGarbage, frame0 \in Frame0Tables, cfg \in VMConfigs :
          \E c \in {PageTableCtor("MP4", [i \in DemandSlots |-> g], frame0)} :
          \E v \in {VMPoolCtor(c, << >>, cfg)} :
              /\ kpool = v.st.kpool /\ ppool = v.st.ppool
              /\ pd = v.st.pd /\ pt = v.st.pt
              /\ vmpools = v.list
              /\ vm = v.vm
    /\ freed = << >>
    /\ ver = "none" /\ pools = << >>
    /\ IdleSched
    /\ IdleDisk
    /\ IdleFS
    /\ halted = FALSE
    /\ last = NoCall
    /\ nops = 0

RunningVM == ~halted /\ nops < MaxVMOps

\* VMPool::allocate
Allocate(_size) ==
    /\ RunningVM
    /\ LET r == allocate(vm, _size)
       IN  /\ vm' = r.vm
           /\ halted' = (r.outcome = "fatal")
           /\ last' = [op |-> "allocate", pool |-> 0, a |-> _size, n |-> 0,
                       ret |-> r.ret, outcome |-> r.outcome]
    /\ freed' = << >>
    /\ nops' = nops + 1
    /\ UNCHANGED <<fsVars, diskVars, schedVars, poolVars, ptVars>>

\* VMPool::release
Release(_start_address) ==
    /\ RunningVM
    /\ \E r \in release(vm, PTState, _start_address) :
           /\ vm' = r.vm
           /\ kpool' = r.st.kpool /\ ppool' = r.st.ppool
           /\ pd' = r.st.pd /\ pt' = r.st.pt
           /\ freed' = r.freed
           /\ halted' = (r.outcome = "fatal")
           /\ last' = [op |-> "release", pool |-> 0, a |-> _start_address,
                       n |-> Len(r.freed), ret |-> 0, outcome |-> r.outcome]
    /\ nops' = nops + 1
    /\ UNCHANGED <<fsVars, diskVars, schedVars, poolVars, ptver, vmpools>>

\* the first access to a page of a region handed out: the page-fault
\* exception, PageTable::handle_fault
Touch(a) ==
    /\ RunningVM
    /\ a \in RegionPages(vm)
    /\ ~Mapped(pd, pt, a)
    /\ LET r == handle_fault("MP4", PTState, vmpools, 2, a)
       IN  /\ kpool' = r.st.kpool /\ ppool' = r.st.ppool
           /\ pd' = r.st.pd /\ pt' = r.st.pt
           /\ halted' = (r.outcome = "fatal")
           /\ last' = [op |-> "handle_fault", pool |-> 0, a |-> a, n |-> 2,
                       ret |-> 0, outcome |-> r.outcome]
    /\ freed' = << >>
    /\ nops' = nops + 1
    /\ UNCHANGED <<fsVars, diskVars, schedVars, poolVars, ptver, vmpools, vm>>

NextVM ==
    \/ \E n \in AllocSizes : Allocate(n)
    \/ \E a \in ReleaseAddrs(vm) : Release(a)
    \/ \E a \in TouchAddrs(vm, pd, pt) : Touch(a)

SpecVM == InitVM /\ [][NextVM]_vars

----------------------------------------------------------------------------
(***************************************************************************)
(* Claims about VMPool (checked under SpecVM).                             *)
(***************************************************************************)

\* n_bytes rounded up to a multiple of the page size
RoundUp(n) == ((n + 4095) \div 4096) * 4096

\* the recorded regions of v, region 0 included, in table order
Recorded(v) == [i \in 0 .. (v.num_regions - 1) |-> v.regions[i]]

\* C13: allocate(n_bytes) on a pool with enough space returns the address
\* right after the end of the last recorded region, appends a region of
\* n_bytes rounded up to whole pages, and decreases available by exactly that
\* length; nothing already recorded changes.
C13_AllocateAppendsRounded ==
    [][ ( /\ last'.op = "allocate" /\ nops' = nops + 1
          /\ RoundUp(last'.a) <= vm.available_memory )
        => LET n == vm.num_regions
               e == vm.regions[n - 1].base_address + vm.regions[n - 1].length
           IN  /\ last'.outcome = "ok"
               /\ last'.ret = e
               /\ vm'.num_regions = n + 1
               /\ vm'.regions[n] = [base_address |-> e,
                                    length |-> RoundUp(last'.a)]
               /\ \A i \in 0 .. (n - 1) : vm'.regions[i] = vm.regions[i]
               /\ vm'.available_memory = vm.available_memory - RoundUp(last'.a) ]_vars

\* C13 witness: allocations of one, two and three pages from a fresh pool at
\* base B have returned B+0x1000, B+0x2000 and B+0x4000
C13_Witness ==
    /\ nops = 3
    /\ last.op = "allocate" /\ last.a = 12288
    /\ last.ret = vm.base_address + 16384
    /\ vm.num_regions = 4
    /\ vm.regions[1] = [base_address |-> vm.base_address + 4096, length |-> 4096]
    /\ vm.regions[2] = [base_address |-> vm.base_address + 8192, length |-> 8192]
    /\ vm.available_memory = vm.size - 28672

\* the sum of the lengths of the recorded regions from slot i on
RECURSIVE SumLengths(_, _)
SumLengths(v, i) ==
    IF i >= v.num_regions THEN 0
    ELSE v.regions[i].length + SumLengths(v, i + 1)

\* available plus the lengths of all recorded regions (region 0 included) is
\* size, and the recorded regions are sorted by increasing base address and
\* do not overlap
Accounted ==
    /\ vm.available_memory + SumLengths(vm, 0) = vm.size
    /\ \A i \in 0 .. (vm.num_regions - 2) :
          vm.regions[i].base_address + vm.regions[i].length
             <= vm.regions[i + 1].base_address

\* C14: VMPool accounting: after construction and any successful allocate
\* and release calls, available plus the lengths of all recorded regions is
\* size, and the regions are sorted and do not overlap (stated here for
\* pools whose size is a whole number of pages).
C14_VMPoolAccounting ==
    vm.size % 4096 = 0 => Accounted

\* every region handed out lies inside the window [base, base + size)
InsideWindow ==
    \A i \in 1 .. (vm.num_regions - 1) :
        /\ vm.regions[i].base_address >= vm.base_address
        /\ vm.regions[i].base_address + vm.regions[i].length
              <= vm.base_address + vm.size

\* C15: every region handed out by allocate lies inside the pool window
\* [base, base + size) in every reachable state, also after earlier regions
\* have been released (stated here for pools whose size is a whole number
\* of pages).
C15_RegionsInsideWindow ==
    vm.size % 4096 = 0 => InsideWindow

\* C16: allocate(n_bytes) fails, leaving the region table and available as
\* they were, whenever n_bytes rounded up to whole pages exceeds available;
\* so available never wraps below zero.
C16_AllocateFailsWhenShort ==
    [][ ( /\ last'.op = "allocate" /\ nops' = nops + 1
          /\ RoundUp(last'.a) > vm.available_memory )
        => /\ last'.outcome = "fatal"
           /\ vm' = vm
           /\ vm'.available_memory <= vm.size ]_vars

\* the slot of the recorded region, other than region 0, that starts at a;
\* 0 when there is none
RegionAt(v, a) ==
    IF \E i \in 1 .. (v.num_regions - 1) : v.regions[i].base_address = a
    THEN CHOOSE i \in 1 .. (v.num_regions - 1) :
            /\ v.regions[i].base_address = a
            /\ \A j \in 1 .. (i - 1) : v.regions[j].base_address # a
    ELSE 0

\* C17: release(a) succeeds when a is the base address of a recorded region
\* other than region 0: free_page is called once for each page of that
\* region, that record alone is removed with the order of the others kept,
\* and available grows by that region's length.  For any other a it fails,
\* with the region table and available unchanged and no free_page call.
C17_ReleaseExactRegion ==
    [][ (last'.op = "release" /\ nops' = nops + 1) =>
          LET k == RegionAt(vm, last'.a)
              len == vm.regions[k].length
          IN  /\ k # 0 =>
                    /\ last'.outcome = "ok"
                    /\ freed' = [j \in 1 .. (len \div 4096) |->
                                    last'.a + 4096 * (j - 1)]
                    /\ vm'.num_regions = vm.num_regions - 1
                    /\ \A i \in 0 .. (vm.num_regions - 2) :
                          vm'.regions[i] =
                             vm.regions[IF i < k THEN i ELSE i + 1]
                    /\ vm'.available_memory = vm.available_memory + len
              /\ k = 0 =>
                    /\ last'.outcome = "fatal"
                    /\ vm' = vm
                    /\ freed' = << >>
                    /\ PTUnchanged ]_vars

(***************************************************************************)
(* The thread schedulers: Scheduler and RRScheduler of MP5, Scheduler of   *)
(* MP6.  A thread is its id; 0 is nullptr.  The scheduler object together  *)
(* with Thread::CurrentThread() is the record                              *)
(*   [ready_queue, qsize, ticks, current_thread].                          *)
(***************************************************************************)
SchedVersions == {"MP5", "MP5RR", "MP6"}
Threads == 1 .. MaxThreads

\* RRScheduler::RRScheduler: hz = 5
hz == 5

\* the Queue class of MP5 (its source is not part of the repository
\* sources): a FIFO, enqueue at the tail, dequeue at the head
enqueue(q, t) == Append(q, t)
dequeue(q) ==
    IF q = << >> THEN [thread |-> 0, queue |-> q]
    ELSE [thread |-> Head(q), queue |-> Tail(q)]

\* Scheduler::Scheduler, RRScheduler::RRScheduler
\* Machine::outportb(port, data): the port takes one byte
outportb(port, data) == <<port, data % 256>>

\* RRScheduler::set_frequency: the new hz and the port writes, in order
\* (0x43 = 67, 0x34 = 52, 0x40 = 64)
set_frequency(_hz) ==
    LET divisor == 1193180 \div _hz
    IN [hz |-> _hz,
        ports |-> << outportb(67, 52),
                     outportb(64, divisor % 256),
                     outportb(64, divisor \div 256) >>]

\* (interrupts_enabled is the machine's flag, on when the kernel runs)
SchedulerCtor ==
    [ready_queue |-> << >>, qsize |-> 0, ticks |-> 0, current_thread |-> 0,
     interrupts_enabled |-> TRUE]

\* if (Machine::interrupts_enabled()) Machine::disable_interrupts();
disable_interrupts(s) == [s EXCEPT !.interrupts_enabled = FALSE]

\* if (!Machine::interrupts_enabled()) Machine::enable_interrupts();
enable_interrupts(s) == [s EXCEPT !.interrupts_enabled = TRUE]

NoDispatch(s) == [s |-> s, ret |-> 0, outcome |-> "none"]

\* Thread::dispatch_to(new_thread) at the end of a yield; with nullptr the
\* context switch loads its stack pointer through the null pointer and the
\* kernel is lost
Dispatch(s, new_thread) ==
    [s |-> [s EXCEPT !.current_thread = new_thread], ret |-> new_thread,
     outcome |-> IF new_thread = 0 THEN "fatal" ELSE "dispatched"]

\* MP5 Scheduler::yield
MP5_yield(s) ==
    IF s.qsize = 0 THEN NoDispatch(disable_interrupts(s))
    ELSE LET d == dequeue(s.ready_queue)
         IN  Dispatch(enable_interrupts(
                          [s EXCEPT !.ready_queue = d.queue, !.qsize = @ - 1]),
                      d.thread)

\* MP5 Scheduler::resume
MP5_resume(s, _thread) ==
    enable_interrupts(
        [s EXCEPT !.ready_queue = enqueue(@, _thread), !.qsize = @ + 1])

\* MP5 Scheduler::add
MP5_add(s, _thread) ==
    enable_interrupts(
        [s EXCEPT !.ready_queue = enqueue(@, _thread), !.qsize = @ + 1])

\* the loop of Scheduler::terminate and of RRScheduler::terminate:
\* for (index = 0; index < qsize; index++), qsize read on every round
\* top->ThreadId(): for a queued nullptr the id is whatever word the read
\* through the null pointer finds (nullid)
ThreadId(top, nullid) == IF top = 0 THEN nullid ELSE top

RECURSIVE terminate_loop(_, _, _, _)
terminate_loop(s, index, _thread, nullid) ==
    IF index < s.qsize
    THEN LET d == dequeue(s.ready_queue)
         IN  IF ThreadId(d.thread, nullid) # ThreadId(_thread, nullid)
             THEN terminate_loop(
                      [s EXCEPT !.ready_queue = enqueue(d.queue, d.thread)],
                      index + 1, _thread, nullid)
             ELSE terminate_loop(
                      [s EXCEPT !.ready_queue = d.queue, !.qsize = @ - 1],
                      index + 1, _thread, nullid)
    ELSE s

\* MP5 Scheduler::terminate
MP5_terminate(s, _thread, nullid) ==
    enable_interrupts(terminate_loop(disable_interrupts(s), 0, _thread, nullid))

\* RRScheduler::yield without the reset of the tick counter
RR_yield_noreset(s) ==
    IF s.qsize = 0 THEN NoDispatch(disable_interrupts(s))
    ELSE LET d == dequeue(s.ready_queue)
         IN  Dispatch(enable_interrupts(
                          [s EXCEPT !.ready_queue = d.queue, !.qsize = @ - 1]),
                      d.thread)

\* RRScheduler::yield
RR_yield(s) ==
    IF s.qsize = 0 THEN NoDispatch(disable_interrupts(s))
    ELSE LET d == dequeue(s.ready_queue)
         IN  Dispatch(enable_interrupts(
                          [s EXCEPT !.ready_queue = d.queue, !.ticks = 0,
                                    !.qsize = @ - 1]),
                      d.thread)

\* RRScheduler::resume that puts the thread at the head of the queue
RR_resume_athead(s, _thread) ==
    enable_interrupts(
        [s EXCEPT !.ready_queue = <<_thread>> \o @, !.qsize = @ + 1])

\* RRScheduler::resume
RR_resume(s, _thread) ==
    enable_interrupts(
        [s EXCEPT !.ready_queue = enqueue(@, _thread), !.qsize = @ + 1])

\* RRScheduler::add
RR_add(s, _thread) ==
    enable_interrupts(
        [s EXCEPT !.ready_queue = enqueue(@, _thread), !.qsize = @ + 1])

\* RRScheduler::terminate
RR_terminate(s, _thread, nullid) ==
    enable_interrupts(terminate_loop(disable_interrupts(s), 0, _thread, nullid))

\* RRScheduler::handle_interrupt
RR_handle_interrupt(s) ==
    LET s1 == [s EXCEPT !.ticks = @ + 1]
    IN  IF s1.ticks >= hz
        THEN RR_yield(RR_resume([s1 EXCEPT !.ticks = 0], s1.current_thread))
        ELSE NoDispatch(s1)

\* MP6 resume with the new node linked in at the head
MP6_resume_athead(s, _thread) ==
    IF _thread = 0 THEN s
    ELSE [s EXCEPT !.ready_queue = <<_thread>> \o @, !.qsize = @ + 1]

\* MP6 Scheduler::resume; the list ready_queue_head .. ready_queue_tail is
\* the sequence ready_queue, queue_size is qsize
MP6_resume(s, _thread) ==
    IF _thread = 0 THEN s
    ELSE [s EXCEPT !.ready_queue = Append(@, _thread), !.qsize = @ + 1]

\* MP6 Scheduler::add
MP6_add(s, _thread) == MP6_resume(s, _thread)

\* MP6 Scheduler::yield
MP6_yield(s) ==
    LET s1 == IF s.current_thread # 0 THEN MP6_resume(s, s.current_thread)
              ELSE s
    IN  IF s1.ready_queue # << >>
        THEN Dispatch([s1 EXCEPT !.ready_queue = Tail(@), !.qsize = @ - 1],
                      Head(s1.ready_queue))
        ELSE NoDispatch(s1)

\* the sequence q without its element at position i
RemoveAt(q, i) == SubSeq(q, 1, i - 1) \o SubSeq(q, i + 1, Len(q))

\* MP6 Scheduler::terminate: the first node holding _thread is unlinked
MP6_terminate(s, _thread) ==
    IF _thread = 0 THEN s
    ELSE IF \E i \in 1 .. Len(s.ready_queue) : s.ready_queue[i] = _thread
         THEN LET i == CHOOSE i \in 1 .. Len(s.ready_queue) :
                          /\ s.ready_queue[i] = _thread
                          /\ \A j \in 1 .. (i - 1) : s.ready_queue[j] # _thread
              IN  [s EXCEPT !.ready_queue = RemoveAt(@, i), !.qsize = @ - 1]
         ELSE s

\* the scheduler that runs
yield(v, s) ==
    IF v = "MP5" THEN MP5_yield(s)
    ELSE IF v = "MP5RR" THEN RR_yield(s)
    ELSE MP6_yield(s)

resume(v, s, _thread) ==
    IF v = "MP5" THEN MP5_resume(s, _thread)
    ELSE IF v = "MP5RR" THEN RR_resume(s, _thread)
    ELSE MP6_resume(s, _thread)

add(v, s, _thread) ==
    IF v = "MP5" THEN MP5_add(s, _thread)
    ELSE IF v = "MP5RR" THEN RR_add(s, _thread)
    ELSE MP6_add(s, _thread)

terminate(v, s, _thread, nullid) ==
    IF v = "MP5" THEN MP5_terminate(s, _thread, nullid)
    ELSE IF v = "MP5RR" THEN RR_terminate(s, _thread, nullid)
    ELSE MP6_terminate(s, _thread)

(***************************************************************************)
(* The scheduler as a state machine.                                       *)
(***************************************************************************)
SchedState ==
    [ready_queue |-> ready_queue, qsize |-> qsize, ticks |-> ticks,
     current_thread |-> current_thread,
     interrupts_enabled |-> interrupts_enabled]

\* the scheduler variables take the fields of s
SetSched(s) ==
    /\ ready_queue' = s.ready_queue
    /\ qsize' = s.qsize
    /\ ticks' = s.ticks
    /\ current_thread' = s.current_thread
    /\ interrupts_enabled' = s.interrupts_enabled

\* the call is recorded in last and in slog
Logged(op, t, ret, outcome) ==
    /\ last' = [op |-> op, pool |-> 0, a |-> t, n |-> 0, ret |-> ret,
                outcome |-> outcome]
    /\ slog' = Append(slog, <<op, t, ret>>)
    /\ nops' = nops + 1

InQueue(q, t) == \E i \in 1 .. Len(q) : q[i] = t

InitSched ==
    /\ sver \in SchedVersions
    /\ ready_queue = SchedulerCtor.ready_queue
    /\ qsize = SchedulerCtor.qsize
    /\ ticks = SchedulerCtor.ticks
    /\ current_thread = SchedulerCtor.current_thread
    /\ interrupts_enabled = SchedulerCtor.interrupts_enabled
    /\ pit = IF sver = "MP5RR" THEN set_frequency(hz).ports ELSE << >>
    /\ tstate = [t \in Threads |-> "new"]
    /\ slog = << >>
    /\ elapsed = -1
    /\ ver = "none" /\ pools = << >>
    /\ IdlePT
    /\ IdleVM
    /\ IdleDisk
    /\ IdleFS
    /\ halted = FALSE
    /\ last = NoCall
    /\ nops = 0

RunningSched == ~halted /\ nops < MaxSchedOps

SchedFrame ==
    UNCHANGED <<poolVars, ptVars, vmVars, diskVars, fsVars, sver, pit>>

\* the ids a read through a queued nullptr can find: that of a thread, or
\* (0) that of none
NullIds == {0} \cup Threads

\* Scheduler::add for a thread just created
Add(t) ==
    /\ RunningSched
    /\ tstate[t] = "new"
    /\ SetSched(add(sver, SchedState, t))
    /\ tstate' = [tstate EXCEPT ![t] = "live"]
    /\ Logged("add", t, 0, "ok")
    /\ UNCHANGED <<halted, elapsed>>
    /\ SchedFrame

\* Scheduler::resume for the running thread or a thread that waits
Resume(t) ==
    /\ RunningSched
    /\ tstate[t] = "live"
    /\ ~InQueue(ready_queue, t)
    /\ SetSched(resume(sver, SchedState, t))
    /\ Logged("resume", t, 0, "ok")
    /\ UNCHANGED <<tstate, halted, elapsed>>
    /\ SchedFrame

\* the calls made so far with nullptr
NullCalls ==
    Cardinality({ i \in 1 .. Len(slog) :
                    slog[i][1] \in {"add", "resume"} /\ slog[i][2] = 0 })

\* Scheduler::add(nullptr)
AddNull ==
    /\ RunningSched
    /\ NullCalls < MaxNullCalls
    /\ SetSched(add(sver, SchedState, 0))
    /\ Logged("add", 0, 0, "ok")
    /\ UNCHANGED <<tstate, halted, elapsed>>
    /\ SchedFrame

\* Scheduler::resume(nullptr)
ResumeNull ==
    /\ RunningSched
    /\ NullCalls < MaxNullCalls
    /\ SetSched(resume(sver, SchedState, 0))
    /\ Logged("resume", 0, 0, "ok")
    /\ UNCHANGED <<tstate, halted, elapsed>>
    /\ SchedFrame

\* Scheduler::yield, called by the running thread or by the boot code
Yield ==
    /\ RunningSched
    /\ \E r \in {yield(sver, SchedState)} :
          /\ SetSched(r.s)
          /\ Logged("yield", current_thread, r.ret, r.outcome)
          /\ halted' = (r.outcome = "fatal")
          /\ elapsed' = IF r.outcome = "dispatched" THEN 0 ELSE -1
    /\ UNCHANGED tstate
    /\ SchedFrame

\* Scheduler::terminate
Terminate(t) ==
    /\ RunningSched
    /\ tstate[t] = "live"
    /\ \E nullid \in (IF InQueue(ready_queue, 0) THEN NullIds ELSE {0}) :
          SetSched(terminate(sver, SchedState, t, nullid))
    /\ tstate' = [tstate EXCEPT ![t] = "dead"]
    /\ Logged("terminate", t, 0, "ok")
    /\ UNCHANGED <<halted, elapsed>>
    /\ SchedFrame

\* the state the handler of an interrupt starts in: the CPU has cleared the
\* flag
InHandler(s) == [s EXCEPT !.interrupts_enabled = FALSE]

\* the return from the handler restores the flag of the interrupted code
AfterHandler(s) == [s EXCEPT !.interrupts_enabled = TRUE]

\* the timer interrupt under RRScheduler, delivered while interrupts are
\* enabled; a tick that does not end the quantum is not counted as a call
HandleInterrupt ==
    /\ ~halted
    /\ sver = "MP5RR"
    /\ interrupts_enabled
    /\ ticks + 1 >= hz => nops < MaxSchedOps
    /\ \E r \in {RR_handle_interrupt(InHandler(SchedState))} :
          /\ SetSched(IF r.outcome = "none" THEN AfterHandler(r.s) ELSE r.s)
          /\ halted' = (r.outcome = "fatal")
          /\ IF ticks + 1 >= hz
             THEN Logged("handle_interrupt", current_thread, r.ret, r.outcome)
             ELSE /\ last' = [op |-> "tick", pool |-> 0, a |-> current_thread,
                              n |-> 0, ret |-> 0, outcome |-> "none"]
                  /\ UNCHANGED <<slog, nops>>
          /\ elapsed' = IF r.outcome = "dispatched" THEN 0
                        ELSE IF r.outcome = "fatal" THEN -1
                        ELSE IF elapsed >= 0 /\ elapsed < hz + 1
                             THEN elapsed + 1
                             ELSE elapsed
    /\ UNCHANGED tstate
    /\ SchedFrame

NextSched ==
    \/ \E t \in Threads : Add(t)
    \/ \E t \in Threads : Resume(t)
    \/ AddNull
    \/ ResumeNull
    \/ Yield
    \/ \E t \in Threads : Terminate(t)
    \/ HandleInterrupt

SpecSched == InitSched /\ [][NextSched]_vars

(***************************************************************************)
(* Claims about the schedulers.                                            *)
(***************************************************************************)
\* the step is a call of op that was made (and counted)
SchedStep(op) == last'.op = op /\ nops' = nops + 1

\* q is the front part of r
IsPrefix(q, r) == Len(q) <= Len(r) /\ SubSeq(r, 1, Len(q)) = q

\* add/resume put the thread at the tail; a yield (also the one the timer
\* handler makes) that finds threads queued dispatches the head, and the
\* threads behind it stay in their order
FIFOStep ==
    /\ ((SchedStep("add") \/ SchedStep("resume")) /\ last'.a # 0) =>
          ready_queue' = Append(ready_queue, last'.a)
    /\ ((SchedStep("yield") \/ SchedStep("handle_interrupt"))
            /\ ready_queue # << >> /\ Head(ready_queue) # 0) =>
          /\ last'.outcome = "dispatched"
          /\ last'.ret = Head(ready_queue)
          /\ current_thread' = Head(ready_queue)
          /\ IsPrefix(Tail(ready_queue), ready_queue')

\* on a new scheduler a, b, c were added in that order and three yields
\* followed
AddedThenYielded(a, b, c) ==
    /\ Len(slog) >= 6
    /\ slog[1][1] = "add" /\ slog[1][2] = a
    /\ slog[2][1] = "add" /\ slog[2][2] = b
    /\ slog[3][1] = "add" /\ slog[3][2] = c
    /\ \A i \in 4 .. 6 : slog[i][1] = "yield"

C19_YieldDoesNotRequeueCaller ==
    [][ (SchedStep("yield") /\ last'.outcome = "dispatched") =>
          /\ ready_queue # << >>
          /\ ready_queue' = Tail(ready_queue)
          /\ ~InQueue(ready_queue, current_thread) =>
                 ~InQueue(ready_queue', current_thread) ]_vars

\* q without every entry equal to t, the others in their order
Without(q, t) == SelectSeq(q, LAMBDA x : x # t)

\* C20: terminate(t), for a ready queue of any length and t at any position:
\* afterwards t is not queued, the other threads are queued in the same
\* relative order as before, and the size counter is the number of queued
\* entries; when t is not queued the queue is unchanged.
C20_TerminateRemovesOnlyT ==
    [][ SchedStep("terminate") =>
          /\ ~InQueue(ready_queue', last'.a)
          /\ ready_queue' = Without(ready_queue, last'.a)
          /\ qsize' = Len(ready_queue')
          /\ ~InQueue(ready_queue, last'.a) => ready_queue' = ready_queue
      ]_vars

\* C21: add(nullptr) and resume(nullptr) leave the ready queue and its size
\* counter unchanged, also when the timer handler resumes the current thread
\* while none is current (the handler then only yields); a yield on an empty
\* ready queue dispatches nothing and leaves the caller running with the
\* queue still empty.
C21_NullAndEmptyAreNoOps ==
    [][ /\ ((SchedStep("add") \/ SchedStep("resume")) /\ last'.a = 0) =>
              /\ ready_queue' = ready_queue
              /\ qsize' = qsize
        /\ (SchedStep("handle_interrupt") /\ current_thread = 0) =>
              /\ ~halted'
              /\ ready_queue' = IF ready_queue = << >> THEN << >>
                                ELSE Tail(ready_queue)
              /\ qsize' = IF ready_queue = << >> THEN qsize ELSE qsize - 1
        /\ (SchedStep("yield") /\ ready_queue = << >>) =>
              /\ last'.outcome = "none"
              /\ current_thread' = current_thread
              /\ ready_queue' = << >>
              /\ qsize' = qsize
      ]_vars

\* the step is a timer interrupt taken by RRScheduler::handle_interrupt
TickStep ==
    \/ last'.op = "tick" /\ ticks' = ticks + 1 /\ nops' = nops
    \/ SchedStep("handle_interrupt")

\* C22: RR quantum: a thread that RRScheduler::yield dispatched and that does
\* not yield itself is preempted on exactly the hz-th timer tick after its
\* dispatch, never later: that tick resets ticks to 0, appends the running
\* thread to the tail of the ready queue and dispatches the previous head;
\* the ticks before it leave the thread running.
C22_RRQuantum ==
    /\ [](sver = "MP5RR" => elapsed < hz)
    /\ [][ (TickStep /\ elapsed >= 0 /\ current_thread # 0
               /\ ~InQueue(ready_queue, 0)) =>
             IF elapsed + 1 = hz
             THEN /\ last'.op = "handle_interrupt"
                  /\ ticks' = 0
                  /\ ready_queue' =
                        Tail(Append(ready_queue, current_thread))
                  /\ current_thread' =
                        Head(Append(ready_queue, current_thread))
                  /\ qsize' = qsize
             ELSE /\ last'.op = "tick"
                  /\ current_thread' = current_thread
                  /\ ready_queue' = ready_queue
                  /\ qsize' = qsize
                  /\ elapsed' = elapsed + 1 ]_vars

\* with two threads the peer runs after the fifth tick
C22_Witness ==
    /\ sver = "MP5RR"
    /\ Len(slog) >= 2
    /\ last.op = "handle_interrupt"
    /\ slog[Len(slog) - 1][1] = "yield"
    /\ slog[Len(slog) - 1][3] = last.a
    /\ last.a # 0 /\ last.ret # 0 /\ last.ret # last.a
    /\ current_thread = last.ret
    /\ ready_queue = <<last.a>>
    /\ ticks = 0 /\ elapsed = 0

(***************************************************************************)
(* NonBlockingDisk: the polling revision (part_002) and the interrupt-     *)
(* driven revision (part_003), on top of the cooperative Scheduler.  The   *)
(* disk object is the record [blocked_queue, waiting_for_interrupt]; the   *)
(* list blocked_queue_head .. blocked_queue_tail is a sequence.            *)
(***************************************************************************)
DiskVersions == {"poll", "irq"}
DiskSchedVersions == {"MP5", "MP6"}
DiskThreads == 1 .. MaxDiskThreads

\* NonBlockingDisk::NonBlockingDisk
NonBlockingDiskCtor ==
    [blocked_queue |-> << >>, waiting_for_interrupt |-> FALSE,
     blocked_queue_head |-> 0, blocked_queue_tail |-> 0]

\* the addresses operator new hands out for BlockedThreadNode, and a cell
\* that holds no node
Nodes == 1 .. MaxNodes
FreeNode == [thread |-> 0, next |-> 0, live |-> FALSE]
\* node, prev and new_node of wait_while_busy, and the blocked_queue_tail
\* that the test before the append saw; 0 outside their scope
NoLocals == [node |-> 0, prev |-> 0, new_node |-> 0, tail |-> 0]

\* the first position of t in q, 0 when t is not in q
FirstIndex(q, t) ==
    IF InQueue(q, t)
    THEN CHOOSE i \in 1 .. Len(q) :
            q[i] = t /\ \A j \in 1 .. (i - 1) : q[j] # t
    ELSE 0

\* part_003 wait_while_busy: the walk that sets thread_in_queue
Irq_scan(d, current) == InQueue(d.blocked_queue, current)

\* part_003 wait_while_busy: the append when the walk did not find the thread
Irq_park(d, current, thread_in_queue) ==
    IF ~thread_in_queue
    THEN [d EXCEPT !.blocked_queue = Append(@, current),
                   !.waiting_for_interrupt = TRUE]
    ELSE d

\* part_003 wait_while_busy: the walk after yield returned, which unlinks
\* the first node holding the thread
Irq_remove_self(d, current) ==
    LET i == FirstIndex(d.blocked_queue, current)
    IN  IF i = 0 THEN d
        ELSE [d EXCEPT !.blocked_queue = RemoveAt(@, i),
                       !.waiting_for_interrupt =
                           IF i = 1 /\ Len(d.blocked_queue) = 1
                           THEN FALSE ELSE @]

\* part_003 wait_while_busy: the disk is ready, return to the caller
Irq_return(d) == [d EXCEPT !.waiting_for_interrupt = FALSE]

\* part_003 wake_next_blocked_thread, s the scheduler it resumes on
Irq_wake_next_blocked_thread(v, d, s) ==
    IF d.blocked_queue # << >>
    THEN [d |-> [d EXCEPT !.blocked_queue = Tail(@),
                          !.waiting_for_interrupt =
                              IF Len(d.blocked_queue) = 1 THEN FALSE ELSE @],
          s |-> resume(v, s, Head(d.blocked_queue))]
    ELSE [d |-> d, s |-> s]

\* part_003 handle_interrupt without the test of the BSY bit
Irq_handle_interrupt_nobusytest(v, d, s, is_busy) ==
    Irq_wake_next_blocked_thread(v, d, s)

\* part_003 handle_interrupt
Irq_handle_interrupt(v, d, s, is_busy) ==
    IF ~is_busy THEN Irq_wake_next_blocked_thread(v, d, s)
    ELSE [d |-> d, s |-> s]

\* part_002 wait_while_busy: the walk before the loop
Poll_scan(d, current) == InQueue(d.blocked_queue, current)

\* part_002 wait_while_busy: the append; the result carries thread_in_queue
Poll_park(d, current, thread_in_queue) ==
    IF ~thread_in_queue
    THEN [d |-> [d EXCEPT !.blocked_queue = Append(@, current)],
          thread_in_queue |-> TRUE]
    ELSE [d |-> d, thread_in_queue |-> thread_in_queue]

\* part_002 remove walk that resets the flag and leaves the node linked
Poll_remove_self_nounlink(d, current, thread_in_queue) ==
    LET i == FirstIndex(d.blocked_queue, current)
    IN  IF i = 0 THEN [d |-> d, thread_in_queue |-> thread_in_queue]
        ELSE [d |-> d, thread_in_queue |-> FALSE]

\* part_002 wait_while_busy: the walk after yield returned
Poll_remove_self(d, current, thread_in_queue) ==
    LET i == FirstIndex(d.blocked_queue, current)
    IN  IF i = 0 THEN [d |-> d, thread_in_queue |-> thread_in_queue]
        ELSE [d |-> [d EXCEPT !.blocked_queue = RemoveAt(@, i)],
              thread_in_queue |-> FALSE]

(***************************************************************************)
(* The disk with its threads as a state machine.  Only the running thread  *)
(* takes steps.  A disk operation (SimpleDisk::read/write) is              *)
(* wait_while_busy, the command, wait_while_busy again; th[t].phase says   *)
(* which of the two waits ("pre", "post") the thread is in and th[t].pc    *)
(* where in wait_while_busy it is.                                         *)
(***************************************************************************)
DiskState ==
    [blocked_queue |-> blocked_queue,
     waiting_for_interrupt |-> waiting_for_interrupt]

SetDisk(d) ==
    /\ blocked_queue' = d.blocked_queue
    /\ waiting_for_interrupt' = d.waiting_for_interrupt

IdleThread == [phase |-> "idle", pc |-> "idle", thread_in_queue |-> FALSE]

\* where wait_while_busy starts: part_002 walks the queue first
EntryPc(v) == IF v = "poll" THEN "scan" ELSE "check"

\* the scheduler after the threads were added and the boot code yielded
RECURSIVE AddAll(_, _, _)
AddAll(v, s, t) ==
    IF t > MaxDiskThreads THEN s ELSE AddAll(v, add(v, s, t), t + 1)

\* the kernel has added the threads first .. MaxDiskThreads and yielded
InitDiskFrom(first) ==
    /\ dver \in DiskVersions
    /\ sver \in DiskSchedVersions
    /\ \E r \in {yield(sver, AddAll(sver, SchedulerCtor, first))} :
          /\ ready_queue = r.s.ready_queue
          /\ qsize = r.s.qsize
          /\ ticks = r.s.ticks
          /\ current_thread = r.s.current_thread
          /\ interrupts_enabled = r.s.interrupts_enabled
    /\ pit = << >>
    /\ tstate = [t \in DiskThreads |-> "live"]
    /\ slog = << >>
    /\ elapsed = -1
    /\ blocked_queue = NonBlockingDiskCtor.blocked_queue
    /\ waiting_for_interrupt = NonBlockingDiskCtor.waiting_for_interrupt
    /\ busy = FALSE
    /\ irq14 = FALSE
    /\ th = [t \in DiskThreads |-> IdleThread]
    /\ cmds = 0
    /\ blocked_queue_head = NonBlockingDiskCtor.blocked_queue_head
    /\ blocked_queue_tail = NonBlockingDiskCtor.blocked_queue_tail
    /\ heap = [a \in Nodes |-> FreeNode]
    /\ loc = [t \in DiskThreads |-> NoLocals]
    /\ ver = "none" /\ pools = << >>
    /\ IdlePT
    /\ IdleVM
    /\ IdleFS
    /\ halted = FALSE
    /\ last = NoCall
    /\ nops = 0

InitDisk == InitDiskFrom(1)

DiskFrame ==
    UNCHANGED <<poolVars, ptVars, vmVars, fsVars, halted, nops, sver, dver,
                tstate, slog, elapsed, ticks, pit, nodeVars>>

DiskCall(op, t) ==
    last' = [op |-> op, pool |-> 0, a |-> t, n |-> 0, ret |-> 0,
             outcome |-> "ok"]

Me == current_thread

\* SimpleDisk::read / write begins: ide_ata_issue_command calls
\* wait_while_busy
StartOp ==
    /\ th[Me].pc = "idle"
    /\ cmds < MaxDiskCmds
    /\ th' = [th EXCEPT ![Me] = [phase |-> "pre", pc |-> EntryPc(dver),
                                 thread_in_queue |-> FALSE]]
    /\ DiskCall("start", Me)
    /\ UNCHANGED <<blocked_queue, waiting_for_interrupt, busy, irq14, cmds,
                   ready_queue, qsize, current_thread,
                   interrupts_enabled>>
    /\ DiskFrame

\* while (is_busy()): into the loop body, or out of wait_while_busy
Check ==
    /\ th[Me].pc = "check"
    /\ IF busy
       THEN /\ th' = [th EXCEPT ![Me].pc =
                         IF dver = "poll" THEN "park" ELSE "scan"]
            /\ UNCHANGED <<blocked_queue, waiting_for_interrupt>>
       ELSE /\ th' = [th EXCEPT ![Me].pc =
                         IF th[Me].phase = "pre" THEN "issue" ELSE "idle",
                                ![Me].phase =
                         IF th[Me].phase = "pre" THEN "pre" ELSE "idle"]
            /\ SetDisk(IF dver = "irq" THEN Irq_return(DiskState)
                       ELSE DiskState)
    /\ DiskCall("check", Me)
    /\ UNCHANGED <<busy, irq14, cmds, ready_queue, qsize, current_thread,
                   interrupts_enabled>>
    /\ DiskFrame

\* the walk that looks for the running thread in the blocked queue
Scan ==
    /\ th[Me].pc = "scan"
    /\ th' = [th EXCEPT ![Me].pc = IF dver = "poll" THEN "check" ELSE "park",
                        ![Me].thread_in_queue =
                            IF dver = "poll" THEN Poll_scan(DiskState, Me)
                            ELSE Irq_scan(DiskState, Me)]
    /\ DiskCall("scan", Me)
    /\ UNCHANGED <<blocked_queue, waiting_for_interrupt, busy, irq14, cmds,
                   ready_queue, qsize, current_thread,
                   interrupts_enabled>>
    /\ DiskFrame

\* the append to the blocked queue
Park ==
    /\ th[Me].pc = "park"
    /\ IF dver = "poll"
       THEN \E r \in {Poll_park(DiskState, Me, th[Me].thread_in_queue)} :
               /\ SetDisk(r.d)
               /\ th' = [th EXCEPT ![Me].pc = "yield",
                                   ![Me].thread_in_queue = r.thread_in_queue]
       ELSE /\ SetDisk(Irq_park(DiskState, Me, th[Me].thread_in_queue))
            /\ th' = [th EXCEPT ![Me].pc = "yield"]
    /\ DiskCall("park", Me)
    /\ UNCHANGED <<busy, irq14, cmds, ready_queue, qsize, current_thread,
                   interrupts_enabled>>
    /\ DiskFrame

\* System::SCHEDULER->yield() inside wait_while_busy
WaitYield ==
    /\ th[Me].pc = "yield"
    /\ th' = [th EXCEPT ![Me].pc = "resumed"]
    /\ SetSched(yield(sver, SchedState).s)
    /\ DiskCall("yield", Me)
    /\ UNCHANGED <<blocked_queue, waiting_for_interrupt, busy, irq14, cmds>>
    /\ UNCHANGED <<poolVars, ptVars, vmVars, fsVars, halted, nops,
                   sver, dver, tstate,
                   slog, elapsed, pit, nodeVars>>

\* the walk that unlinks the running thread after yield returned
RemoveSelf ==
    /\ th[Me].pc = "resumed"
    /\ IF dver = "poll"
       THEN \E r \in {Poll_remove_self(DiskState, Me,
                                       th[Me].thread_in_queue)} :
               /\ SetDisk(r.d)
               /\ th' = [th EXCEPT ![Me].pc = "check",
                                   ![Me].thread_in_queue = r.thread_in_queue]
       ELSE /\ SetDisk(Irq_remove_self(DiskState, Me))
            /\ th' = [th EXCEPT ![Me].pc = "check"]
    /\ DiskCall("remove", Me)
    /\ UNCHANGED <<busy, irq14, cmds, ready_queue, qsize, current_thread,
                   interrupts_enabled>>
    /\ DiskFrame

\* ide_ata_issue_command writes the command register: the drive sets BSY;
\* then ide_polling calls wait_while_busy
IssueCommand ==
    /\ th[Me].pc = "issue"
    /\ busy' = TRUE
    /\ cmds' = cmds + 1
    /\ th' = [th EXCEPT ![Me] = [phase |-> "post", pc |-> EntryPc(dver),
                                 thread_in_queue |-> FALSE]]
    /\ DiskCall("issue", Me)
    /\ UNCHANGED <<blocked_queue, waiting_for_interrupt, irq14,
                   ready_queue, qsize, current_thread,
                   interrupts_enabled>>
    /\ DiskFrame

\* a thread outside disk operations passes the CPU on: resume(self) and
\* yield, or yield alone where yield itself re-queues the caller
PassCPU ==
    /\ th[Me].pc = "idle"
    /\ SetSched(IF sver = "MP6" THEN yield(sver, SchedState).s
                ELSE yield(sver, resume(sver, SchedState, Me)).s)
    /\ DiskCall("pass", Me)
    /\ UNCHANGED <<diskVars>>
    /\ UNCHANGED <<poolVars, ptVars, vmVars, fsVars, halted, nops,
                   sver, tstate,
                   slog, elapsed, pit, nodeVars>>

\* the drive finishes the command: BSY falls and IRQ14 is raised
DiskReady ==
    /\ busy
    /\ busy' = FALSE
    /\ irq14' = TRUE
    /\ DiskCall("ready", 0)
    /\ UNCHANGED <<blocked_queue, waiting_for_interrupt, th, cmds,
                   ready_queue, qsize, current_thread,
                   interrupts_enabled>>
    /\ DiskFrame

\* IRQ14 is delivered, which takes interrupts enabled:
\* NonBlockingDisk::handle_interrupt (part_003; the polling revision
\* registers no handler)
HandleIRQ14 ==
    /\ irq14
    /\ interrupts_enabled
    /\ irq14' = FALSE
    /\ IF dver = "irq"
       THEN \E r \in {Irq_handle_interrupt(sver, DiskState,
                                           InHandler(SchedState), busy)} :
               /\ SetDisk(r.d)
               /\ SetSched(AfterHandler(r.s))
       ELSE UNCHANGED <<blocked_queue, waiting_for_interrupt, ready_queue,
                        qsize, ticks, current_thread, interrupts_enabled>>
    /\ DiskCall("handle_interrupt", Me)
    /\ UNCHANGED <<busy, th, cmds>>
    /\ UNCHANGED <<poolVars, ptVars, vmVars, fsVars, halted, nops,
                   sver, dver, tstate,
                   slog, elapsed, pit, nodeVars>>

ThreadStep ==
    \/ StartOp
    \/ Check
    \/ Scan
    \/ Park
    \/ WaitYield
    \/ RemoveSelf
    \/ IssueCommand
    \/ PassCPU

NextDisk ==
    \/ ThreadStep
    \/ DiskReady
    \/ HandleIRQ14

SpecDisk == InitDisk /\ [][NextDisk]_vars

\* the running thread keeps taking steps, the drive finishes every command,
\* and a raised IRQ14 is delivered
SpecDiskLive ==
    /\ SpecDisk
    /\ WF_vars(ThreadStep)
    /\ WF_vars(DiskReady)
    /\ WF_vars(HandleIRQ14)

(***************************************************************************)
(* Claims about NonBlockingDisk.                                           *)
(***************************************************************************)
NoDuplicates(q) == \A i, j \in 1 .. Len(q) : q[i] = q[j] => i = j

\* C23: no thread appears more than once in the blocked queue, in any
\* reachable state, for any interleaving of wait_while_busy calls by several
\* threads, dispatches and IRQ14 interrupts.
C23_BlockedQueueNoDuplicates == NoDuplicates(blocked_queue)

\* all threads are parked at once behind one command
C23_Witness ==
    /\ Len(blocked_queue) = MaxDiskThreads
    /\ \E t \in DiskThreads : th[t].phase = "post"
    /\ \E t \in DiskThreads : th[t].phase = "pre"

\* the step is a run of the IRQ14 handler
IRQ14Step == irq14 /\ ~irq14'

\* C24: disk wake-one: a run of NonBlockingDisk::handle_interrupt removes at
\* most one thread from the blocked queue, its head, and passes exactly that
\* thread to scheduler.resume; with the disk busy or the blocked queue empty
\* it changes neither the blocked queue nor the ready queue.
C24_DiskWakeOne ==
    [][ IRQ14Step =>
          /\ current_thread' = current_thread
          /\ IF dver = "irq" /\ ~busy /\ blocked_queue # << >>
             THEN /\ blocked_queue' = Tail(blocked_queue)
                  /\ ready_queue' =
                        Append(ready_queue, Head(blocked_queue))
                  /\ qsize' = qsize + 1
             ELSE /\ blocked_queue' = blocked_queue
                  /\ ready_queue' = ready_queue
                  /\ qsize' = qsize ]_vars

\* the handler has woken the thread parked longest and left another parked
C24_Witness ==
    /\ dver = "irq" /\ sver = "MP5"
    /\ last.op = "handle_interrupt"
    /\ blocked_queue # << >>
    /\ ready_queue # << >>
    /\ LET t == ready_queue[Len(ready_queue)]
       IN  /\ th[t].pc = "resumed"
           /\ ~InQueue(blocked_queue, t)

\* the thread is inside wait_while_busy
Waiting(t) == th[t].pc \in {"check", "scan", "park", "yield", "resumed"}

\* C25: liveness of the disk wait: every thread that enters
\* wait_while_busy eventually returns from it, with the disk not busy and
\* the thread no longer on the blocked queue, provided the drive finishes
\* its commands, IRQ14 fires once per busy-to-ready edge and the scheduler
\* keeps dispatching ready threads.
C25_DiskWaitReturns ==
    /\ \A t \in DiskThreads : Waiting(t) ~> ~Waiting(t)
    /\ [][ \A t \in DiskThreads :
             (Waiting(t) /\ ~Waiting(t)') =>
                 (~busy /\ ~InQueue(blocked_queue', t)) ]_vars

(***************************************************************************)
(* The file system (file_system.C) and its File (file.C).  A disk block is *)
(* BLOCK_SIZE cells; block 0 holds the inode table, block 1 the bitmap, an *)
(* indirect block holds data-block numbers in its first cells, a data block *)
(* holds bytes.  The C arrays are 0-based: cell i is element i + 1 here.   *)
(***************************************************************************)
Blocks == 0 .. NumBlocks - 1
Slots == 1 .. MAX_INODES
ZeroBlock == [i \in 1 .. BLOCK_SIZE |-> 0]
FreeInode ==
    [id |-> 0, block_numbers_block |-> 0, num_blocks |-> 0, file_length |-> 0]
NoBlockCached == -1

\* SimpleDisk::write and SimpleDisk::read move one whole block
disk_write(fs, b, buf) == [fs EXCEPT !.disk[b] = buf]
disk_read(fs, b) == fs.disk[b]

SaveInodes(fs) == disk_write(fs, 0, fs.inodes)
SaveFreeList(fs) == disk_write(fs, 1, fs.free_blocks)

\* Format writes the empty tables to the disk; the memory tables are not touched
Format(fs) ==
    disk_write(disk_write(fs, 0, [i \in Slots |-> FreeInode]),
               1, [b \in Blocks |-> IF b < 2 THEN 1 ELSE 0])

Mount(fs) ==
    [fs EXCEPT !.inodes = disk_read(fs, 0), !.free_blocks = disk_read(fs, 1)]

\* the slot of the first inode with that id, 0 for nullptr
LookupFile(fs, _file_id) ==
    IF \E i \in Slots : fs.inodes[i].id = _file_id
    THEN CHOOSE i \in Slots :
            /\ fs.inodes[i].id = _file_id
            /\ \A j \in 1 .. i - 1 : fs.inodes[j].id # _file_id
    ELSE 0

\* the first slot whose id is 0, -1 when there is none
GetFreeInode(fs) ==
    IF \E i \in Slots : fs.inodes[i].id = 0
    THEN CHOOSE i \in Slots :
            /\ fs.inodes[i].id = 0
            /\ \A j \in 1 .. i - 1 : fs.inodes[j].id # 0
    ELSE -1

\* the first block from 2 on whose cell is 0, -1 when there is none
GetFreeBlock(fs) ==
    IF \E b \in 2 .. NumBlocks - 1 : fs.free_blocks[b] = 0
    THEN CHOOSE b \in 2 .. NumBlocks - 1 :
            /\ fs.free_blocks[b] = 0
            /\ \A c \in 2 .. b - 1 : fs.free_blocks[c] # 0
    ELSE -1

\* the blocks from i on whose cell is 0, in ascending order, at most count
RECURSIVE GetFreeBlocks_scan(_, _, _)
GetFreeBlocks_scan(fs, i, count) ==
    IF i >= NumBlocks \/ count = 0 THEN << >>
    ELSE IF fs.free_blocks[i] = 0
         THEN <<i>> \o GetFreeBlocks_scan(fs, i + 1, count - 1)
         ELSE GetFreeBlocks_scan(fs, i + 1, count)

\* GetFreeBlocks(count, blocks): what was stored in blocks, and found or -1
GetFreeBlocks(fs, count) ==
    LET blocks == GetFreeBlocks_scan(fs, 2, count)
    IN [blocks |-> blocks,
        ret |-> IF Len(blocks) = count THEN Len(blocks) ELSE -1]

\* CreateFile that leaves the bitmap cell of the indirect block as it was
CreateFile_store_nomark(fs, _file_id, inode_idx, block) ==
    SaveFreeList(SaveInodes(
        [disk_write(fs, block, ZeroBlock) EXCEPT
            !.inodes[inode_idx] =
                [id |-> _file_id, block_numbers_block |-> block,
                 num_blocks |-> 0, file_length |-> 0]]))

CreateFile_store(fs, _file_id, inode_idx, block) ==
    SaveFreeList(SaveInodes(
        [disk_write(fs, block, ZeroBlock) EXCEPT
            !.inodes[inode_idx] =
                [id |-> _file_id, block_numbers_block |-> block,
                 num_blocks |-> 0, file_length |-> 0],
            !.free_blocks[block] = 1]))

CreateFile(fs, _file_id) ==
    IF LookupFile(fs, _file_id) # 0 THEN [fs |-> fs, ret |-> FALSE]
    ELSE IF GetFreeInode(fs) = -1 THEN [fs |-> fs, ret |-> FALSE]
    ELSE IF GetFreeBlock(fs) = -1 THEN [fs |-> fs, ret |-> FALSE]
    ELSE [fs |-> CreateFile_store(fs, _file_id, GetFreeInode(fs),
                                  GetFreeBlock(fs)),
          ret |-> TRUE]

\* the bitmap after the loop over block_nums[0 .. num_blocks - 1]
DeleteFile_free(free, block_nums, num_blocks) ==
    [b \in Blocks |->
        IF \E i \in 1 .. num_blocks : block_nums[i] # 0 /\ block_nums[i] = b
        THEN 0 ELSE free[b]]

DeleteFile(fs, _file_id) ==
    IF LookupFile(fs, _file_id) = 0 THEN [fs |-> fs, ret |-> FALSE]
    ELSE
      LET slot == LookupFile(fs, _file_id)
          inode == fs.inodes[slot]
          freed_blocks ==
              IF inode.block_numbers_block # 0
              THEN [DeleteFile_free(fs.free_blocks,
                                    disk_read(fs, inode.block_numbers_block),
                                    inode.num_blocks)
                        EXCEPT ![inode.block_numbers_block] = 0]
              ELSE fs.free_blocks
      IN [fs |-> SaveFreeList(SaveInodes(
                    [fs EXCEPT !.inodes[slot] = FreeInode,
                               !.free_blocks = freed_blocks])),
          ret |-> TRUE]

(***************************************************************************)
(* File: a cursor over one inode.  inode is the slot File::File looked up  *)
(* (0 for nullptr); cached_block_idx is NoBlockCached for (unsigned)-1;    *)
(* open tells that the object exists.                                      *)
(***************************************************************************)
Min(a, b) == IF a < b THEN a ELSE b

FileCtor(fs, _id) ==
    [open |-> TRUE, inode |-> LookupFile(fs, _id), current_position |-> 0,
     cached_block_idx |-> NoBlockCached, block_cache |-> ZeroBlock]

\* ~File: writes the cached block back and saves the inode table, but only
\* when a block is cached
FileDtor(fs, h) ==
    IF h.inode # 0 /\ fs.inodes[h.inode].block_numbers_block # 0
       /\ h.cached_block_idx # NoBlockCached
    THEN LET inode == fs.inodes[h.inode]
             block_nums == disk_read(fs, inode.block_numbers_block)
         IN SaveInodes(
              IF h.cached_block_idx < inode.num_blocks
                 /\ block_nums[h.cached_block_idx + 1] # 0
              THEN disk_write(fs, block_nums[h.cached_block_idx + 1],
                              h.block_cache)
              ELSE fs)
    ELSE fs

\* one pass of the while loop of File::Read; st holds cached_block_idx,
\* block_cache, bytes_read, the bytes copied to _buf, and whether it broke out
Read_iter(fs, inode, block_nums, pos, to_read, st) ==
    LET block_idx == (pos + st.bytes_read) \div BLOCK_SIZE
        offset_in_block == (pos + st.bytes_read) % BLOCK_SIZE
    IN IF block_idx >= inode.num_blocks \/ block_nums[block_idx + 1] = 0
       THEN [st EXCEPT !.done = TRUE]
       ELSE
         LET cache == IF block_idx # st.cached_block_idx
                      THEN disk_read(fs, block_nums[block_idx + 1])
                      ELSE st.block_cache
             copy_count == Min(BLOCK_SIZE - offset_in_block,
                               to_read - st.bytes_read)
         IN [cached_block_idx |-> block_idx,
             block_cache |-> cache,
             bytes_read |-> st.bytes_read + copy_count,
             buf |-> st.buf \o
                     [i \in 1 .. copy_count |-> cache[offset_in_block + i]],
             done |-> FALSE]

RECURSIVE Read_loop(_, _, _, _, _, _)
Read_loop(fs, inode, block_nums, pos, to_read, st) ==
    IF st.done \/ st.bytes_read >= to_read THEN st
    ELSE CHOOSE r \in
            { Read_loop(fs, inode, block_nums, pos, to_read, nx) :
                nx \in {Read_iter(fs, inode, block_nums, pos, to_read, st)} } :
            TRUE

\* File::Read without the clamp of the count to file_length - position
Read_noclamp(fs, h, _n) ==
    IF h.inode = 0 \/ fs.inodes[h.inode].block_numbers_block = 0
    THEN [h |-> h, buf |-> << >>, ret |-> 0]
    ELSE
      LET inode == fs.inodes[h.inode]
          st == Read_loop(fs, inode,
                          disk_read(fs, inode.block_numbers_block),
                          h.current_position, _n,
                          [cached_block_idx |-> h.cached_block_idx,
                           block_cache |-> h.block_cache,
                           bytes_read |-> 0, buf |-> << >>, done |-> FALSE])
      IN [h |-> [h EXCEPT !.current_position = @ + st.bytes_read,
                          !.cached_block_idx = st.cached_block_idx,
                          !.block_cache = st.block_cache],
          buf |-> st.buf, ret |-> st.bytes_read]

\* File::Read: the File afterwards, the bytes copied and the return value.
\* available is unsigned: a position past file_length wraps to a large count
Read(fs, h, _n) ==
    IF h.inode = 0 \/ fs.inodes[h.inode].block_numbers_block = 0
    THEN [h |-> h, buf |-> << >>, ret |-> 0]
    ELSE
      LET inode == fs.inodes[h.inode]
          to_read == IF h.current_position > inode.file_length THEN _n
                     ELSE Min(_n, inode.file_length - h.current_position)
          st == Read_loop(fs, inode,
                          disk_read(fs, inode.block_numbers_block),
                          h.current_position, to_read,
                          [cached_block_idx |-> h.cached_block_idx,
                           block_cache |-> h.block_cache,
                           bytes_read |-> 0, buf |-> << >>, done |-> FALSE])
      IN [h |-> [h EXCEPT !.current_position = @ + st.bytes_read,
                          !.cached_block_idx = st.cached_block_idx,
                          !.block_cache = st.block_cache],
          buf |-> st.buf, ret |-> st.bytes_read]

\* Write_alloc without the increment of num_blocks
Write_alloc_nocount(slot, st) ==
    LET new_block == GetFreeBlock(st.fs)
        inode == st.fs.inodes[slot]
        block_nums == [st.block_nums EXCEPT ![inode.num_blocks + 1] = new_block]
        fs1 == [st.fs EXCEPT !.free_blocks[new_block] = 1]
    IN [st EXCEPT
          !.block_nums = block_nums,
          !.block_cache = ZeroBlock,
          !.data_blocks = @ \cup {new_block},
          !.fs = SaveFreeList(
                   disk_write(disk_write(fs1, new_block, ZeroBlock),
                              inode.block_numbers_block, block_nums))]

\* lines 331-348: take a block, enter it in block_nums, zero it on the disk,
\* save the indirect block and the bitmap (the inode table is not saved)
Write_alloc(slot, st) ==
    LET new_block == GetFreeBlock(st.fs)
        inode == st.fs.inodes[slot]
        block_nums == [st.block_nums EXCEPT ![inode.num_blocks + 1] = new_block]
        fs1 == [st.fs EXCEPT !.free_blocks[new_block] = 1,
                             !.inodes[slot].num_blocks = @ + 1]
    IN [st EXCEPT
          !.block_nums = block_nums,
          !.block_cache = ZeroBlock,
          !.data_blocks = @ \cup {new_block},
          !.fs = SaveFreeList(
                   disk_write(disk_write(fs1, new_block, ZeroBlock),
                              inode.block_numbers_block, block_nums))]

\* Write_copy without the write of the block back to the disk
Write_copy_nowriteback(pos, to_write, buf, st) ==
    LET block_idx == (pos + st.bytes_written) \div BLOCK_SIZE
        offset_in_block == (pos + st.bytes_written) % BLOCK_SIZE
        loaded == IF block_idx # st.cached_block_idx
                  THEN IF st.block_nums[block_idx + 1] # 0
                       THEN disk_read(st.fs, st.block_nums[block_idx + 1])
                       ELSE ZeroBlock
                  ELSE st.block_cache
        copy_count == Min(BLOCK_SIZE - offset_in_block,
                          to_write - st.bytes_written)
        cache == [i \in 1 .. BLOCK_SIZE |->
                    IF i > offset_in_block /\ i <= offset_in_block + copy_count
                    THEN buf[st.bytes_written + i - offset_in_block]
                    ELSE loaded[i]]
    IN [st EXCEPT
          !.cached_block_idx = block_idx,
          !.block_cache = cache,
          !.bytes_written = @ + copy_count]

\* lines 351-375: load the block unless cached, copy, write the block back
Write_copy(pos, to_write, buf, st) ==
    LET block_idx == (pos + st.bytes_written) \div BLOCK_SIZE
        offset_in_block == (pos + st.bytes_written) % BLOCK_SIZE
        loaded == IF block_idx # st.cached_block_idx
                  THEN IF st.block_nums[block_idx + 1] # 0
                       THEN disk_read(st.fs, st.block_nums[block_idx + 1])
                       ELSE ZeroBlock
                  ELSE st.block_cache
        copy_count == Min(BLOCK_SIZE - offset_in_block,
                          to_write - st.bytes_written)
        cache == [i \in 1 .. BLOCK_SIZE |->
                    IF i > offset_in_block /\ i <= offset_in_block + copy_count
                    THEN buf[st.bytes_written + i - offset_in_block]
                    ELSE loaded[i]]
    IN [st EXCEPT
          !.cached_block_idx = block_idx,
          !.block_cache = cache,
          !.fs = disk_write(st.fs, st.block_nums[block_idx + 1], cache),
          !.data_blocks = @ \cup {st.block_nums[block_idx + 1]},
          !.bytes_written = @ + copy_count]

\* one pass of the while loop of File::Write
Write_iter(slot, pos, to_write, buf, st) ==
    LET block_idx == (pos + st.bytes_written) \div BLOCK_SIZE
        inode == st.fs.inodes[slot]
    IN IF block_idx >= inode.num_blocks
       THEN IF inode.num_blocks >= MAX_BLOCKS \/ GetFreeBlock(st.fs) = -1
            THEN [st EXCEPT !.done = TRUE]
            ELSE CHOOSE r \in
                    { Write_copy(pos, to_write, buf, a) :
                        a \in {Write_alloc(slot, st)} } : TRUE
       ELSE Write_copy(pos, to_write, buf, st)

RECURSIVE Write_loop(_, _, _, _, _)
Write_loop(slot, pos, to_write, buf, st) ==
    IF st.done \/ st.bytes_written >= to_write THEN st
    ELSE CHOOSE r \in
            { Write_loop(slot, pos, to_write, buf, nx) :
                nx \in {Write_iter(slot, pos, to_write, buf, st)} } : TRUE

\* File::Write: the file system and the File afterwards, the return value,
\* and the blocks it wrote file bytes to (lines 344 and 373)
Write(fs, h, _n, _buf) ==
    IF h.inode = 0 \/ fs.inodes[h.inode].block_numbers_block = 0
    THEN [fs |-> fs, h |-> h, ret |-> 0, data_blocks |-> {}]
    ELSE
      LET max_write == MAX_BLOCKS * BLOCK_SIZE - h.current_position
          to_write == Min(_n, max_write)
          st == Write_loop(h.inode, h.current_position, to_write, _buf,
                  [fs |-> fs,
                   cached_block_idx |-> h.cached_block_idx,
                   block_cache |-> h.block_cache,
                   block_nums |->
                       disk_read(fs, fs.inodes[h.inode].block_numbers_block),
                   bytes_written |-> 0, data_blocks |-> {},
                   done |-> FALSE])
          new_position == h.current_position + st.bytes_written
      IN [fs |-> [st.fs EXCEPT !.inodes[h.inode].file_length =
                                   IF new_position > @ THEN new_position ELSE @],
          h |-> [h EXCEPT !.current_position = new_position,
                          !.cached_block_idx = st.cached_block_idx,
                          !.block_cache = st.block_cache],
          ret |-> st.bytes_written, data_blocks |-> st.data_blocks]

Reset(h) ==
    [h EXCEPT !.current_position = 0, !.cached_block_idx = NoBlockCached]

(***************************************************************************)
(* The file system as a state machine: a formatted and mounted disk, the   *)
(* FileSystem calls, and one File object at a time.                        *)
(***************************************************************************)
\* file ids passed to the calls; 0 is the id of a free inode
MaxFileId == MAX_INODES + 1
FileIds == 0 .. MaxFileId
\* byte counts passed to Read and Write: up to one past the largest file
MaxCount == MAX_BLOCKS * BLOCK_SIZE + 1
\* the buffers passed to Write: neighbouring bytes differ
Bufs(n) ==
    { [i \in 1 .. n |-> ((b + i) % MaxByte) + 1] : b \in 0 .. MaxByte - 1 }

FSState == [disk |-> disk, inodes |-> inodes, free_blocks |-> free_blocks]

SetFS(fs) ==
    /\ disk' = fs.disk
    /\ inodes' = fs.inodes
    /\ free_blocks' = fs.free_blocks

NoFile ==
    [open |-> FALSE, inode |-> 0, current_position |-> 0,
     cached_block_idx |-> NoBlockCached, block_cache |-> ZeroBlock]

\* a blank disk after Format and Mount
InitFS ==
    /\ fsver = "fs"
    /\ \E fs \in {Mount(Format([disk |-> [b \in Blocks |-> ZeroBlock],
                                inodes |-> << >>, free_blocks |-> << >>]))} :
          /\ disk = fs.disk
          /\ inodes = fs.inodes
          /\ free_blocks = fs.free_blocks
    /\ file = NoFile
    /\ other = NoFile
    /\ rbuf = << >>
    /\ wrote = << >>
    /\ fphase = "x"
    /\ ver = "none" /\ pools = << >>
    /\ IdlePT
    /\ IdleVM
    /\ IdleSched
    /\ IdleDisk
    /\ halted = FALSE
    /\ last = NoCall
    /\ nops = 0

FSFrame == UNCHANGED <<poolVars, ptVars, vmVars, schedVars, diskVars, fsver,
                       halted, other>>

FSCall(op, a, n, ret) ==
    /\ nops' = nops + 1
    /\ last' = [op |-> op, pool |-> 0, a |-> a, n |-> n, ret |-> ret,
                outcome |-> "ok"]

\* a run is not followed past a Write that put file bytes into block 0 or 1
RunningFS ==
    fsver = "fs" /\ nops < MaxFSOps /\ last.outcome # "table overwritten"

DoCreateFile(id) ==
    /\ RunningFS
    /\ \E r \in {CreateFile(FSState, id)} :
          /\ SetFS(r.fs)
          /\ FSCall("CreateFile", id, 0, r.ret)
    /\ UNCHANGED <<file, rbuf, wrote, fphase>>
    /\ FSFrame

\* the file a File is open on is not deleted under it
DoDeleteFile(id) ==
    /\ RunningFS
    /\ ~(file.open /\ file.inode # 0 /\ file.inode = LookupFile(FSState, id))
    /\ \E r \in {DeleteFile(FSState, id)} :
          /\ SetFS(r.fs)
          /\ FSCall("DeleteFile", id, 0, r.ret)
    /\ UNCHANGED <<file, rbuf, wrote, fphase>>
    /\ FSFrame

\* Mount again, as after a restart: the tables are read back from the disk
\* and the File object, if there is one, is not used again
DoMount ==
    /\ RunningFS
    /\ SetFS(Mount(FSState))
    /\ file' = NoFile
    /\ fphase' = "x"
    /\ wrote' = << >>
    /\ FSCall("Mount", 0, 0, TRUE)
    /\ UNCHANGED rbuf
    /\ FSFrame

\* new File(fs, id)
Open(id) ==
    /\ RunningFS
    /\ ~file.open
    /\ id # 0
    /\ \E h \in {FileCtor(FSState, id)} :
          /\ file' = h
          /\ fphase' = IF h.inode # 0
                          /\ inodes[h.inode].num_blocks = 0
                          /\ inodes[h.inode].file_length = 0
                       THEN "w" ELSE "x"
    /\ wrote' = << >>
    /\ FSCall("Open", id, 0, 0)
    /\ UNCHANGED <<disk, inodes, free_blocks, rbuf>>
    /\ FSFrame

\* delete file
Close ==
    /\ RunningFS
    /\ file.open
    /\ SetFS(FileDtor(FSState, file))
    /\ file' = NoFile
    /\ fphase' = "x"
    /\ wrote' = << >>
    /\ FSCall("Close", 0, 0, 0)
    /\ UNCHANGED rbuf
    /\ FSFrame

DoWrite(n, buf) ==
    /\ RunningFS
    /\ file.open
    /\ \E r \in {Write(FSState, file, n, buf)} :
          /\ SetFS(r.fs)
          /\ file' = r.h
          /\ nops' = nops + 1
          /\ last' = [op |-> "Write", pool |-> 0, a |-> 0, n |-> n,
                      ret |-> r.ret,
                      outcome |-> IF r.data_blocks \cap {0, 1} = {} THEN "ok"
                                  ELSE "table overwritten"]
          /\ fphase' = IF fphase = "w" /\ r.ret = n THEN "w" ELSE "x"
    /\ wrote' = IF fphase = "w" THEN wrote \o buf ELSE wrote
    /\ UNCHANGED rbuf
    /\ FSFrame

DoRead(n) ==
    /\ RunningFS
    /\ file.open
    /\ \E r \in {Read(FSState, file, n)} :
          /\ file' = r.h
          /\ rbuf' = r.buf
          /\ FSCall("Read", 0, n, r.ret)
    /\ fphase' = "x"
    /\ UNCHANGED <<disk, inodes, free_blocks, wrote>>
    /\ FSFrame

DoReset ==
    /\ RunningFS
    /\ file.open
    /\ file' = Reset(file)
    /\ fphase' = IF fphase = "w" THEN "r" ELSE "x"
    /\ FSCall("Reset", 0, 0, 0)
    /\ UNCHANGED <<disk, inodes, free_blocks, rbuf, wrote>>
    /\ FSFrame

NextFS ==
    \/ \E id \in FileIds : DoCreateFile(id)
    \/ \E id \in FileIds : DoDeleteFile(id)
    \/ DoMount
    \/ \E id \in FileIds : Open(id)
    \/ Close
    \/ \E n \in 0 .. MaxCount : \E buf \in Bufs(n) : DoWrite(n, buf)
    \/ \E n \in 0 .. MaxCount : DoRead(n)
    \/ DoReset

SpecFS == InitFS /\ [][NextFS]_vars

\* DeleteFile while a File may be open on the file: the File keeps its
\* inode pointer, its position and its cached block index
DoDeleteFileAny(id) ==
    /\ RunningFS
    /\ \E r \in {DeleteFile(FSState, id)} :
          /\ SetFS(r.fs)
          /\ FSCall("DeleteFile", id, 0, r.ret)
    /\ UNCHANGED <<file, rbuf, wrote, fphase>>
    /\ FSFrame

\* any sequence of CreateFile, DeleteFile and File::Write
NextFSAny ==
    \/ \E id \in FileIds : DoCreateFile(id)
    \/ \E id \in FileIds : DoDeleteFileAny(id)
    \/ \E id \in FileIds : Open(id)
    \/ Close
    \/ \E n \in 0 .. MaxCount : \E buf \in Bufs(n) : DoWrite(n, buf)

SpecFSAny == InitFS /\ [][NextFSAny]_vars

(***************************************************************************)
(* Claims about the file system.                                           *)
(***************************************************************************)
\* the step is a call of op on the file system
FSStep(op) == fsver = "fs" /\ nops' = nops + 1 /\ last'.op = op

\* cells of the bitmap that are 0 among the blocks GetFreeBlock looks at
FreeBlockCount(free) == Cardinality({b \in 2 .. NumBlocks - 1 : free[b] = 0})

\* data blocks a file needs to hold len bytes
BlocksFor(len) == (len + BLOCK_SIZE - 1) \div BLOCK_SIZE

\* C26: File round-trip.  On a File opened on a freshly created file and
\* used for writing only, a Write of n bytes that stays within
\* MAX_BLOCKS * BLOCK_SIZE, made while the disk has the free blocks it
\* needs, returns n; and after one Reset a Read of as many bytes as were
\* written, in one call or in several, returns that count and copies out
\* exactly the bytes written, in order.
C26_FileRoundTrip ==
    [][ /\ (FSStep("Write") /\ fphase = "w"
            /\ file.current_position + last'.n <= MAX_BLOCKS * BLOCK_SIZE
            /\ FreeBlockCount(free_blocks) >=
                 BlocksFor(file.current_position + last'.n)
                 - inodes[file.inode].num_blocks)
           => last'.ret = last'.n
        /\ (FSStep("Read") /\ fphase = "r" /\ last'.n = Len(wrote))
           => (last'.ret = Len(wrote) /\ rbuf' = wrote) ]_vars

\* a Read has returned a file of the largest size, written in two calls
C26_Witness ==
    /\ fsver = "fs" /\ last.op = "Read"
    /\ last.ret = MAX_BLOCKS * BLOCK_SIZE
    /\ Len(wrote) = MAX_BLOCKS * BLOCK_SIZE
    /\ rbuf = wrote
    /\ wrote[1] = wrote[BLOCK_SIZE + 1]

\* the data blocks an indirect block lists
Listed(block_nums) ==
    {block_nums[i] : i \in 1 .. MAX_BLOCKS} \ {0}

\* the step deletes the file id, which exists; slot is its inode
DeletesFile(id, slot) ==
    /\ FSStep("DeleteFile") /\ last'.a = id /\ id # 0
    /\ slot = LookupFile(FSState, id) /\ slot # 0

\* C27: Delete reclaims.  DeleteFile(id) on an existing file marks the
\* file's indirect block and every data block listed in it free, sets the
\* inode's id to 0 and changes the bitmap cell of no other block; a file of
\* k data blocks gives k + 1 blocks back to the free set, and GetFreeBlock
\* can hand them out again.
C27_DeleteReclaims ==
    [][ \A id \in FileIds, slot \in Slots :
          DeletesFile(id, slot) =>
            LET ind == inodes[slot].block_numbers_block
                mine == Listed(disk[ind]) \cup {ind}
            IN /\ last'.ret = TRUE
               /\ \A b \in mine : free_blocks'[b] = 0
               /\ inodes'[slot].id = 0
               /\ \A b \in Blocks \ mine : free_blocks'[b] = free_blocks[b]
               /\ FreeBlockCount(free_blocks') =
                    FreeBlockCount(free_blocks) + Cardinality(mine)
               /\ GetFreeBlock(FSState') # -1
               /\ GetFreeBlock(FSState') <= ind ]_vars

\* a file with that id exists: an inode carries it, and 0 is no file's id
FilePresent(tbl, id) == id # 0 /\ \E slot \in Slots : tbl[slot].id = id

\* CreateFile: the cases that fail change nothing; success changes one
\* free slot and one free block
CreateFileContract ==
    FSStep("CreateFile") =>
        /\ ( \/ FilePresent(inodes, last'.a)
             \/ \A slot \in Slots : inodes[slot].id # 0
             \/ FreeBlockCount(free_blocks) = 0 )
           => (last'.ret = FALSE /\ UNCHANGED <<inodes, free_blocks, disk>>)
        /\ last'.ret = TRUE =>
             \E slot \in Slots, b \in 2 .. NumBlocks - 1 :
                /\ inodes[slot].id = 0 /\ free_blocks[b] = 0
                /\ inodes' = [inodes EXCEPT ![slot] =
                                [id |-> last'.a, block_numbers_block |-> b,
                                 num_blocks |-> 0, file_length |-> 0]]
                /\ free_blocks' = [free_blocks EXCEPT ![b] = 1]

\* DeleteFile of an id no file has returns false and changes nothing
DeleteAbsentContract ==
    (FSStep("DeleteFile") /\ ~FilePresent(inodes, last'.a)) =>
        (last'.ret = FALSE /\ UNCHANGED <<inodes, free_blocks, disk>>)

\* C28: CreateFile(id) returns false and leaves the inode table, the bitmap
\* and the disk unchanged when the id exists, when no inode slot is free or
\* when no block is free; on success exactly one inode slot becomes
\* {id, indirect_block, 0, 0} and exactly one free block becomes allocated.
\* DeleteFile(id) for an id that is not present returns false and changes
\* nothing.
C28_CreateDeleteFailuresChangeNothing ==
    [][CreateFileContract /\ DeleteAbsentContract]_vars

\* what a Mount would read equals what is in memory
Persisted(d, tbl, free) == d[0] = tbl /\ d[1] = free

\* C29: Persistence after every mutation.  After each completed CreateFile,
\* DeleteFile and File::Write the inode table in disk block 0 equals the
\* in-memory inode table and the bitmap in disk block 1 equals the
\* in-memory bitmap, so that a Mount at that point reads back the same
\* file lengths and block counts.
C29_PersistedAfterMutation ==
    [][ (FSStep("CreateFile") \/ FSStep("DeleteFile") \/ FSStep("Write"))
          => /\ Persisted(disk', inodes', free_blocks')
             /\ Mount(FSState').inodes = inodes' ]_vars

Max(a, b) == IF a > b THEN a ELSE b

\* the File is open on an existing file
OnFile == file.open /\ file.inode # 0
          /\ inodes[file.inode].block_numbers_block # 0

BlocksInUse ==
    UNION { {inodes[slot].block_numbers_block} \cup
            {disk[inodes[slot].block_numbers_block][i] :
                i \in 1 .. inodes[slot].num_blocks} :
            slot \in {x \in Slots : inodes[x].id # 0} }

\* C32: in every file-system state reached after Format and Mount by
\* CreateFile, DeleteFile and File::Write, the bitmap cells 0 and 1 are 1,
\* in memory and on the disk, GetFreeBlock and GetFreeBlocks never hand out
\* block 0 or block 1, and no file has block 0 or 1 as its indirect block
\* or as a data block: no File::Write puts file bytes into block 0 or 1.
C32_TableBlocksReserved ==
    fsver = "fs" =>
        /\ free_blocks[0] = 1 /\ free_blocks[1] = 1
        /\ disk[1][0] = 1 /\ disk[1][1] = 1
        /\ GetFreeBlock(FSState) \notin {0, 1}
        /\ \A count \in 0 .. NumBlocks :
              \A k \in DOMAIN GetFreeBlocks(FSState, count).blocks :
                 GetFreeBlocks(FSState, count).blocks[k] >= 2
        /\ BlocksInUse \cap {0, 1} = {}
        /\ last.op = "Write" => last.outcome = "ok"

(***************************************************************************)
(* Claims about interrupts in the schedulers.                              *)
(***************************************************************************)
\* C33: each of add, resume, terminate and yield of Scheduler and
\* RRScheduler, entered with interrupts enabled, has interrupts enabled
\* again when it returns or dispatches, on every path, yield on an empty
\* ready queue included: no scheduler call leaves the timer interrupt
\* masked.
C33_SchedulerCallsLeaveInterruptsEnabled ==
    [][ ( /\ sver \in {"MP5", "MP5RR"}
          /\ interrupts_enabled
          /\ \/ SchedStep("add") \/ SchedStep("resume")
             \/ SchedStep("terminate") \/ SchedStep("yield") )
        => interrupts_enabled' ]_vars

\* the 16-bit divisor the timer holds after the writes: low byte first
PitDivisor == pit[2][2] + 256 * pit[3][2]

\* C35: RRScheduler::set_frequency(hz) writes the mode byte 0x34 to port
\* 0x43 and then the low and the high byte of a divisor to port 0x40, and
\* the divisor put together from the two bytes equals 1193180 / hz; so for
\* the hz = 5 the constructor sets.
C35_PitDivisor ==
    sver = "MP5RR" =>
        /\ Len(pit) = 3
        /\ pit[1] = <<67, 52>>
        /\ pit[2][1] = 64 /\ pit[3][1] = 64
        /\ PitDivisor = 1193180 \div hz

(***************************************************************************)
(* The interrupt-driven disk (part_003) with its blocked queue as the      *)
(* linked list it is.  A statement of wait_while_busy that reads or writes *)
(* the list is one step, and IRQ14 is delivered between any two steps of   *)
(* the running thread: wait_while_busy and the MP6 scheduler it runs on    *)
(* never disable interrupts.  delete leaves the cell as it was, a store    *)
(* through nullptr changes nothing in the list.                            *)
(***************************************************************************)
\* the walk over the list for the node of the thread: the node found (0 for
\* none), the node before it, and whether the walk came to an end
RECURSIVE Walk(_, _, _, _, _)
Walk(h, node, prev, current, fuel) ==
    IF node = 0 THEN [node |-> 0, prev |-> prev, ends |-> TRUE]
    ELSE IF h[node].thread = current
         THEN [node |-> node, prev |-> prev, ends |-> TRUE]
    ELSE IF fuel = 0 THEN [node |-> 0, prev |-> prev, ends |-> FALSE]
    ELSE Walk(h, h[node].next, node, current, fuel - 1)

\* delete node
Delete(h, node) == [h EXCEPT ![node].live = FALSE]

FineFrame ==
    UNCHANGED <<poolVars, ptVars, vmVars, fsVars, halted, nops, sver, dver,
                tstate, slog, elapsed, pit, blocked_queue, busy, cmds>>

ThreadFrame ==
    UNCHANGED <<irq14, ready_queue, qsize, ticks, current_thread,
                interrupts_enabled>>

\* lines 493-501: is the running thread in the list
FineScan ==
    /\ th[Me].pc = "scan"
    /\ \E w \in {Walk(heap, blocked_queue_head, 0, Me, MaxNodes)} :
          /\ w.ends
          /\ th' = [th EXCEPT ![Me].pc = "park",
                              ![Me].thread_in_queue = (w.node # 0)]
    /\ DiskCall("scan", Me)
    /\ UNCHANGED <<blocked_queue_head, blocked_queue_tail, heap, loc,
                   waiting_for_interrupt>>
    /\ ThreadFrame /\ FineFrame

\* lines 504-507: the new node, at the lowest address that is free, and the
\* test of blocked_queue_tail
FineNew ==
    /\ th[Me].pc = "park"
    /\ IF th[Me].thread_in_queue
       THEN /\ th' = [th EXCEPT ![Me].pc = "yield"]
            /\ UNCHANGED <<heap, loc>>
       ELSE \E a \in Nodes :
               /\ ~heap[a].live
               /\ \A b \in 1 .. a - 1 : heap[b].live
               /\ heap' = [heap EXCEPT
                             ![a] = [thread |-> Me, next |-> 0, live |-> TRUE]]
               /\ loc' = [loc EXCEPT ![Me].new_node = a,
                                     ![Me].tail = blocked_queue_tail]
               /\ th' = [th EXCEPT ![Me].pc =
                            IF blocked_queue_tail = 0 THEN "sethead"
                            ELSE "link"]
    /\ DiskCall("new", Me)
    /\ UNCHANGED <<blocked_queue_head, blocked_queue_tail,
                   waiting_for_interrupt>>
    /\ ThreadFrame /\ FineFrame

\* line 509: blocked_queue_head = new_node
FineSetHead ==
    /\ th[Me].pc = "sethead"
    /\ blocked_queue_head' = loc[Me].new_node
    /\ th' = [th EXCEPT ![Me].pc = "settail"]
    /\ DiskCall("sethead", Me)
    /\ UNCHANGED <<blocked_queue_tail, heap, loc, waiting_for_interrupt>>
    /\ ThreadFrame /\ FineFrame

\* line 513: blocked_queue_tail->next = new_node, with the pointer read
\* again or kept from the test
FineLink ==
    /\ th[Me].pc = "link"
    /\ \E p \in {blocked_queue_tail, loc[Me].tail} :
          heap' = IF p = 0 THEN heap
                  ELSE [heap EXCEPT ![p].next = loc[Me].new_node]
    /\ th' = [th EXCEPT ![Me].pc = "settail"]
    /\ DiskCall("link", Me)
    /\ UNCHANGED <<blocked_queue_head, blocked_queue_tail, loc,
                   waiting_for_interrupt>>
    /\ ThreadFrame /\ FineFrame

\* lines 510 / 514 and 518: blocked_queue_tail = new_node and the flag
FineSetTail ==
    /\ th[Me].pc = "settail"
    /\ blocked_queue_tail' = loc[Me].new_node
    /\ waiting_for_interrupt' = TRUE
    /\ th' = [th EXCEPT ![Me].pc = "yield"]
    /\ loc' = [loc EXCEPT ![Me] = NoLocals]
    /\ DiskCall("settail", Me)
    /\ UNCHANGED <<blocked_queue_head, heap>>
    /\ ThreadFrame /\ FineFrame

\* lines 528-531 and 549-550: the walk after yield returned
FineFind ==
    /\ th[Me].pc = "resumed"
    /\ \E w \in {Walk(heap, blocked_queue_head, 0, Me, MaxNodes)} :
          /\ w.ends
          /\ loc' = [loc EXCEPT ![Me].node = w.node, ![Me].prev = w.prev]
          /\ th' = [th EXCEPT ![Me].pc =
                       IF w.node = 0 THEN "check" ELSE "unlink"]
    /\ DiskCall("find", Me)
    /\ UNCHANGED <<blocked_queue_head, blocked_queue_tail, heap,
                   waiting_for_interrupt>>
    /\ ThreadFrame /\ FineFrame

\* lines 532-547: the node found is taken out of the list and deleted
FineUnlink ==
    /\ th[Me].pc = "unlink"
    /\ LET node == loc[Me].node
           prev == loc[Me].prev
       IN  /\ IF prev = 0
              THEN /\ blocked_queue_head' = heap[node].next
                   /\ blocked_queue_tail' =
                         IF heap[node].next = 0 THEN 0
                         ELSE blocked_queue_tail
                   /\ waiting_for_interrupt' =
                         IF heap[node].next = 0 THEN FALSE
                         ELSE waiting_for_interrupt
                   /\ heap' = Delete(heap, node)
              ELSE /\ blocked_queue_head' = blocked_queue_head
                   /\ blocked_queue_tail' =
                         IF node = blocked_queue_tail THEN prev
                         ELSE blocked_queue_tail
                   /\ waiting_for_interrupt' = waiting_for_interrupt
                   /\ heap' = Delete([heap EXCEPT
                                        ![prev].next = heap[node].next],
                                     node)
           /\ last' = [op |-> "unlink", pool |-> 0, a |-> Me, n |-> 0,
                       ret |-> 0,
                       outcome |-> IF heap[node].live THEN "ok"
                                   ELSE "removed twice"]
    /\ th' = [th EXCEPT ![Me].pc = "check"]
    /\ loc' = [loc EXCEPT ![Me] = NoLocals]
    /\ ThreadFrame /\ FineFrame

\* IRQ14 is delivered: handle_interrupt and wake_next_blocked_thread
FineHandleIRQ14 ==
    /\ irq14
    /\ interrupts_enabled
    /\ irq14' = FALSE
    /\ IF ~busy /\ blocked_queue_head # 0
       THEN LET node_to_wake == blocked_queue_head
            IN  /\ blocked_queue_head' = heap[node_to_wake].next
                /\ blocked_queue_tail' =
                      IF heap[node_to_wake].next = 0 THEN 0
                      ELSE blocked_queue_tail
                /\ waiting_for_interrupt' =
                      IF heap[node_to_wake].next = 0 THEN FALSE
                      ELSE waiting_for_interrupt
                /\ SetSched(AfterHandler(
                      resume(sver, InHandler(SchedState),
                             heap[node_to_wake].thread)))
                /\ heap' = Delete(heap, node_to_wake)
                /\ last' = [op |-> "handle_interrupt", pool |-> 0,
                            a |-> heap[node_to_wake].thread, n |-> 0,
                            ret |-> 0,
                            outcome |->
                                IF heap[node_to_wake].live THEN "ok"
                                ELSE "removed twice"]
       ELSE /\ UNCHANGED <<blocked_queue_head, blocked_queue_tail, heap,
                           waiting_for_interrupt, ready_queue, qsize,
                           ticks, current_thread, interrupts_enabled>>
            /\ DiskCall("handle_interrupt", 0)
    /\ UNCHANGED <<th, loc>>
    /\ FineFrame

\* the last MaxListThreads threads use the disk
InitDiskFine ==
    InitDiskFrom(MaxDiskThreads - MaxListThreads + 1) /\ dver = "irq"

FineThreadStep ==
    \/ StartOp
    \/ Check
    \/ FineScan
    \/ FineNew
    \/ FineSetHead
    \/ FineLink
    \/ FineSetTail
    \/ WaitYield
    \/ FineFind
    \/ FineUnlink
    \/ IssueCommand
    \/ PassCPU

NextDiskFine ==
    \/ FineThreadStep
    \/ DiskReady
    \/ FineHandleIRQ14

SpecDiskFine == InitDiskFine /\ [][NextDiskFine]_vars

(***************************************************************************)
(* Claims about the blocked queue as a linked list.                        *)
(***************************************************************************)
\* the addresses met from node on, following next, at most fuel of them
RECURSIVE Chain(_, _, _)
Chain(h, node, fuel) ==
    IF node = 0 \/ fuel = 0 THEN << >>
    ELSE <<node>> \o Chain(h, h[node].next, fuel - 1)

\* the running thread is between the test of blocked_queue_tail and the
\* assignment to it
InAppend == th[Me].pc \in {"sethead", "link", "settail"}

\* the list from blocked_queue_head to blocked_queue_tail is what a queue
\* of nodes is: it ends, at the tail, every node on it exists, every node
\* that exists is on it, and no node was deleted twice
WellFormed ==
    LET chain == Chain(heap, blocked_queue_head, MaxNodes + 1)
    IN  /\ (blocked_queue_head = 0) <=> (blocked_queue_tail = 0)
        /\ Len(chain) <= MaxNodes
        /\ \A i, j \in 1 .. Len(chain) : chain[i] = chain[j] => i = j
        /\ \A i \in 1 .. Len(chain) : heap[chain[i]].live
        /\ blocked_queue_head # 0 =>
              blocked_queue_tail = chain[Len(chain)]
        /\ \A a \in Nodes :
              heap[a].live => \E i \in 1 .. Len(chain) : chain[i] = a
        /\ last.outcome # "removed twice"

\* C34: the changes wait_while_busy makes to the blocked queue (the scan
\* with the append, and the walk that removes the thread after it resumed)
\* are atomic with respect to the IRQ14 handler: whatever the interleaving
\* of threads and interrupts, outside an append the list has no dangling
\* head or tail, no lost node and no node removed twice.
C34_BlockedQueueListIntact ==
    (dver = "irq" /\ ~InAppend) => WellFormed

(***************************************************************************)
(* Claims about the disk's blocked queue and the scheduler's ready queue.  *)
(***************************************************************************)
\* C36: with the interrupt-driven NonBlockingDisk on the cooperative
\* Scheduler it is built for (MP6), no thread is at the same time on the
\* disk's blocked queue and in the scheduler's ready queue, and no thread
\* is twice in the ready queue, whatever the interleaving of
\* wait_while_busy, yield and IRQ14 wake-ups.
C36_BlockedAndReadyDisjoint ==
    (dver = "irq" /\ sver = "MP6") =>
        /\ \A t \in DiskThreads :
              ~(InQueue(blocked_queue, t) /\ InQueue(ready_queue, t))
        /\ NoDuplicates(ready_queue)

(***************************************************************************)
(* Demand paging (MP4) over a process pool that has, as on the machine     *)
(* (base frame 1024, 7168 frames), more frames than its base frame number: *)
(* frame 0 is shared, the kernel pool is frames 1 .. 3, the process pool   *)
(* frames 4 .. 15.                                                         *)
(***************************************************************************)
LargeKernelPool ==
    get_frames("MP5", ContFramePool("MP5", [base |-> 1, n |-> 3, info |-> 0]),
               1)

LargeProcessPool ==
    ContFramePool("MP5", [base |-> 4, n |-> 12, info |-> LargeKernelPool.ret])

InitPaging ==
    /\ ptver = "MP4"
    /\ \E g \in PDEGarbage, frame0 \in Frame0Tables :
          \E c \in {PageTableCtorOn("MP4", [i \in DemandSlots |-> g], frame0,
                                    LargeKernelPool.pool, LargeProcessPool)} :
              /\ kpool = c.kpool /\ ppool = c.ppool
              /\ pd = c.pd /\ pt = c.pt
    /\ vmpools = << >>
    /\ ver = "none" /\ pools = << >>
    /\ IdleVM
    /\ IdleSched
    /\ IdleDisk
    /\ IdleFS
    /\ halted = FALSE
    /\ last = NoCall
    /\ nops = 0

RunningPaging == ~halted /\ nops < MaxPagingOps

\* the pages of the demand-paged directory slots that the program uses
DemandAddrs == { Addr(i, j) : i \in DemandSlots, j \in {0, 1} }

\* a reference to a page that is not mapped: the not-present fault
PagingFault(a) ==
    /\ RunningPaging
    /\ ~Mapped(pd, pt, a)
    /\ HandleFaultStep(0, a)

\* free_page of a page that was faulted in
PagingFreePage(a) ==
    /\ RunningPaging
    /\ Mapped(pd, pt, a)
    /\ FreePageStep(a)

NextPaging ==
    \/ \E a \in DemandAddrs : PagingFault(a)
    \/ \E a \in DemandAddrs : PagingFreePage(a)

SpecPaging == InitPaging /\ [][NextPaging]_vars

(***************************************************************************)
(* Claims about the frames behind demand-paged pages.                      *)
(***************************************************************************)
\* the pages whose table the fault handler installed and whose entry is
\* Present
DemandMapped ==
    { a \in DemandAddrs :
        /\ Mapped(pd, pt, a)
        /\ Owns(ppool, pd[page_dir_index(a)].frame) }

\* C37: no physical frame is mapped by the Present entries of two different
\* demand-paged pages, and every frame that the Present entry of a
\* demand-paged page names is allocated (not Free) in the process pool,
\* after any sequence of page faults, free_page calls and further faults.
C37_DemandFramesDistinctAndAllocated ==
    ptver = "MP4" =>
      /\ \A a, b \in DemandMapped :
            a # b => PTEOf(pd, pt, a).frame # PTEOf(pd, pt, b).frame
      /\ \A a \in DemandMapped :
            LET f == PTEOf(pd, pt, a).frame
            IN  /\ Owns(ppool, f)
                /\ get_state(ppool.bitmap, f - ppool.base_frame_no) # Free

(***************************************************************************)
(* Claims about the ownership of disk blocks by files.                     *)
(***************************************************************************)
\* the slots of the inode table that hold a file
LiveInodes == { i \in Slots : inodes[i].id # 0 }

\* the data blocks of the file in slot i: the first num_blocks cells of its
\* indirect block
DataBlocksOf(i) ==
    { disk[inodes[i].block_numbers_block][k] : k \in 1 .. inodes[i].num_blocks }

BlocksUsedBy(i) == {inodes[i].block_numbers_block} \cup DataBlocksOf(i)

AddOrders ==
    { q \in UNION { [1 .. n -> Threads] : n \in 1 .. MaxThreads } :
        \A i, j \in 1 .. Len(q) : q[i] = q[j] => i = j }

RECURSIVE AddInOrder(_, _, _)
AddInOrder(v, s, q) ==
    IF q = << >> THEN s ELSE AddInOrder(v, add(v, s, Head(q)), Tail(q))

InitRR ==
    /\ sver = "MP5RR"
    /\ \E q \in AddOrders :
          /\ \E r \in {yield(sver, AddInOrder(sver, SchedulerCtor, q))} :
                /\ ready_queue = r.s.ready_queue
                /\ qsize = r.s.qsize
                /\ ticks = r.s.ticks
                /\ current_thread = r.s.current_thread
                /\ interrupts_enabled = r.s.interrupts_enabled
                /\ slog = << <<"yield", 0, r.ret>> >>
          /\ tstate = [t \in Threads |->
                          IF InQueue(q, t) THEN "live" ELSE "new"]
    /\ pit = set_frequency(hz).ports
    /\ elapsed = 0
    /\ ver = "none" /\ pools = << >>
    /\ IdlePT
    /\ IdleVM
    /\ IdleDisk
    /\ IdleFS
    /\ halted = FALSE
    /\ last = NoCall
    /\ nops = 0

\* the log with one more dispatch, cut to its last MaxThreads + 1 entries
Dispatched(log, op, t, ret) ==
    LET l == Append(log, <<op, t, ret>>)
    IN  IF Len(l) > MaxThreads + 1 THEN Tail(l) ELSE l

RRFrame == UNCHANGED <<tstate, nops, halted, elapsed>>

\* the timer interrupt: RRScheduler::handle_interrupt
RRTick ==
    /\ interrupts_enabled
    /\ \E r \in {RR_handle_interrupt(InHandler(SchedState))} :
          /\ SetSched(IF r.outcome = "none" THEN AfterHandler(r.s) ELSE r.s)
          /\ last' = [op |-> IF r.outcome = "none" THEN "tick"
                             ELSE "handle_interrupt",
                      pool |-> 0, a |-> current_thread, n |-> 0,
                      ret |-> r.ret, outcome |-> r.outcome]
          /\ slog' = IF r.outcome = "none" THEN slog
                     ELSE Dispatched(slog, "handle_interrupt",
                                     current_thread, r.ret)
    /\ RRFrame
    /\ SchedFrame

\* the running thread passes the CPU on: resume(self) and yield
RRPass ==
    /\ \E r \in {yield(sver, resume(sver, SchedState, current_thread))} :
          /\ SetSched(r.s)
          /\ last' = [op |-> "yield", pool |-> 0, a |-> current_thread,
                      n |-> 0, ret |-> r.ret, outcome |-> r.outcome]
          /\ slog' = Dispatched(slog, "yield", current_thread, r.ret)
    /\ RRFrame
    /\ SchedFrame

NextRR ==
    \/ RRTick
    \/ RRPass

SpecRR == InitRR /\ [][NextRR]_vars

\* timer ticks keep arriving
SpecRRLive == SpecRR /\ WF_vars(RRTick)

(***************************************************************************)
(* Claims about the round-robin scheduler left to run.                     *)
(***************************************************************************)
LiveThreads == { t \in Threads : tstate[t] = "live" }

\* entries i < j of the log are two consecutive dispatches of one thread
ConsecutiveDispatches(i, j) ==
    /\ slog[i][3] = slog[j][3]
    /\ \A k \in (i + 1) .. (j - 1) : slog[k][3] # slog[j][3]

OtherFrame ==
    UNCHANGED <<poolVars, ptVars, vmVars, schedVars, diskVars, fsver, halted,
                file, rbuf, wrote, fphase>>

\* new File(fs, id) for the second object
OtherOpen(id) ==
    /\ RunningFS
    /\ ~other.open
    /\ id # 0
    /\ other' = FileCtor(FSState, id)
    /\ FSCall("Open", id, 0, 0)
    /\ UNCHANGED <<disk, inodes, free_blocks>>
    /\ OtherFrame

\* Write through the second object
OtherWrite(n, buf) ==
    /\ RunningFS
    /\ other.open
    /\ \E r \in {Write(FSState, other, n, buf)} :
          /\ SetFS(r.fs)
          /\ other' = r.h
          /\ nops' = nops + 1
          /\ last' = [op |-> "Write", pool |-> 0, a |-> 1, n |-> n,
                      ret |-> r.ret,
                      outcome |-> IF r.data_blocks \cap {0, 1} = {} THEN "ok"
                                  ELSE "table overwritten"]
    /\ OtherFrame

\* delete of the second object
OtherClose ==
    /\ RunningFS
    /\ other.open
    /\ SetFS(FileDtor(FSState, other))
    /\ other' = NoFile
    /\ FSCall("Close", 1, 0, 0)
    /\ OtherFrame

NextFSTwo ==
    \/ \E id \in FileIds : DoCreateFile(id)
    \/ \E id \in FileIds : Open(id)
    \/ Close
    \/ \E n \in 0 .. MaxCount : \E buf \in Bufs(n) : DoWrite(n, buf)
    \/ \E n \in 0 .. MaxCount : DoRead(n)
    \/ \E id \in FileIds : OtherOpen(id)
    \/ \E n \in 0 .. MaxCount : \E buf \in Bufs(n) : OtherWrite(n, buf)
    \/ OtherClose

SpecFSTwo == InitFS /\ [][NextFSTwo]_vars

(***************************************************************************)
(* Claims about closing a File.                                            *)
(***************************************************************************)
\* C40: closing a File never changes the content of a data block on the
\* disk: Write is write-through, so the block the destructor writes back
\* is already on the disk; also when a second File on the same file has
\* written that block after this one cached it, the two used in turn.
C40_CloseKeepsDataBlocks ==
    [][ FSStep("Close") =>
          \A b \in 2 .. NumBlocks - 1 : disk'[b] = disk[b] ]_vars

====
